---- MODULE Spec2Model ----
(***************************************************************************)
(* Host side of the Ledger Cardano app protocol.                           *)
(*                                                                         *)
(*   mode = "ts"      the current API, src/src/Ada.ts: public operations   *)
(*                    driven by interact over _send, with the one-shot     *)
(*                    ERR_STILL_IN_CALL retry of the first exchange.       *)
(*   mode = "legacy"  the superseded API, src/src/Ada.js: setTransaction,  *)
(*                    the chunked SET_TX stream.                           *)
(*   mode = "parse"   the request parser, src/src/parsing.ts: a parser     *)
(*                    function applied to a caller's argument; it has its  *)
(*                    own specification, SpecParser.                       *)
(*                                                                         *)
(* Procs are concurrent callers of one Ada instance over one transport.    *)
(* JavaScript runs a handler to its next await, so one action is one       *)
(* synchronous run: a call up to its first transport.send, or the          *)
(* continuation of a settled transport.send up to the next one.            *)
(***************************************************************************)
EXTENDS Integers, Sequences, FiniteSets, TLC

VARIABLES
    mode,        \* which of the two API variants this behaviour runs
    lock,        \* transport._appAPIlock: the caller holding the guard, 0 if free
    devVersion,  \* version of the device connected right now
    calls,       \* calls made so far
    pc,          \* per caller: "idle", "awaiting", "done", "failed"
    call,        \* per caller: the operation called and its request
    first,       \* per caller: interact's flag `first`
    attempt,     \* per caller: transport.send calls made for the current request
    sent,        \* per caller: every request handed to transport.send, in order
    acc,         \* per caller: responses passed to interaction.next, in order
    version,     \* per caller: the interaction's local `version`
    result,      \* per caller: value the call resolved with
    err,         \* per caller: error the call rejected with
    settled,     \* per caller: how each transport.send settled and what the
                 \*   sender (_send, setTransaction) made of it, in order
    prevVersion, \* the version the last settled call had read from the device
    tx,          \* per caller (legacy): the txHex argument
    off,         \* per caller (legacy): loop variable i of setTransaction
    chunks,      \* per caller (legacy): frames handed to transport.send, in order
    response,    \* per caller (legacy): setTransaction's local `response`
    parser,      \* the parser function called, its argument and its outcome
    last         \* the last call a caller took the outcome of, when recorded

vars == <<mode, lock, devVersion, calls, pc, call, first, attempt, sent, acc,
          version, result, err, settled, prevVersion, tx, off, chunks, response,
          parser, last>>

tsVars     == <<devVersion, call, first, attempt, sent, acc, version>>
legacyVars == <<tx, off, chunks, response>>

-----------------------------------------------------------------------------
(* Bounds *)

MaxCalls  == 2
MaxPaths  == 1
MaxBody   == 2
MaxChunks == 2
MaxCerts  == 2
MaxItems  == 1
MaxDigits == 2
MaxRuns   == 2

\* Two concurrent callers.
Procs == {1, 2}

-----------------------------------------------------------------------------
(* Errors.  An error value is a record: its class, its statusCode property  *)
(* ("none" when it has none) and whether that property is a number.         *)

ERR_STILL_IN_CALL      == "ERR_STILL_IN_CALL"
ERR_REJECTED_BY_POLICY == "ERR_REJECTED_BY_POLICY"

NoError == [cls |-> "none", statusCode |-> "none", numeric |-> FALSE]

DeviceStatusError(code) ==
    [cls |-> "DeviceStatusError", statusCode |-> code, numeric |-> TRUE]

InvalidDataError(reason) ==
    [cls |-> "InvalidData", statusCode |-> reason, numeric |-> FALSE]

AssertionError ==
    [cls |-> "AssertionError", statusCode |-> "none", numeric |-> FALSE]

DeviceVersionUnsupported ==
    [cls |-> "DeviceVersionUnsupported", statusCode |-> "none", numeric |-> FALSE]

\* What transport.send can reject with: a status error of the device, a
\* failure of the channel, and a failure whose statusCode is not a number.
TransportStatusError(code) ==
    [cls |-> "TransportStatusError", statusCode |-> code, numeric |-> TRUE]

TransportError ==
    [cls |-> "TransportError", statusCode |-> "none", numeric |-> FALSE]

TransportErrorStringCode ==
    [cls |-> "TransportError", statusCode |-> ERR_STILL_IN_CALL, numeric |-> FALSE]

RawFailures ==
    { TransportStatusError(ERR_STILL_IN_CALL),
      TransportStatusError(ERR_REJECTED_BY_POLICY),
      TransportError,
      TransportErrorStringCode }

-----------------------------------------------------------------------------
(* The current API (Ada.ts): operations, requests, validation *)

Ops ==
    { "getVersion", "getSerial", "runTests", "getExtendedPublicKeys",
      "getExtendedPublicKey", "deriveAddress", "showAddress", "signTransaction",
      "signOperationalCertificate", "signCIP36Vote", "deriveNativeScriptHash" }

\* The list the constructor hands to transport.decorateAppAPIMethods.
methods ==
    { "getVersion", "getSerial", "getExtendedPublicKeys", "signTransaction",
      "deriveAddress", "showAddress", "deriveNativeScriptHash" }

\* getExtendedPublicKey only calls this.getExtendedPublicKeys({paths: [path]}),
\* which is the decorated method.
Delegate(op) ==
    IF op = "getExtendedPublicKey" THEN "getExtendedPublicKeys" ELSE op

\* Whether a call of op passes through the guard decorateAppAPIMethods installs.
Guarded(op) == Delegate(op) \in methods

KeyOps == {"getExtendedPublicKeys", "getExtendedPublicKey"}

\* Operations whose request is parsed before interact is called.
ParsedOps ==
    { "deriveAddress", "showAddress", "signTransaction",
      "signOperationalCertificate", "signCIP36Vote", "deriveNativeScriptHash" }

\* A derivation path is modelled by its number of indexes: what the host's
\* validation and the device's policy look at.
MAX_PATH_LENGTH == 10
MIN_DEVICE_PATH_LENGTH == 3
PathLens == {MIN_DEVICE_PATH_LENGTH - 1, MIN_DEVICE_PATH_LENGTH, MAX_PATH_LENGTH + 1}


\* Variant of parseBIP32Path: the host demands MIN_DEVICE_PATH_LENGTH indexes.
parseBIP32PathWithMinimum(len) ==
    MIN_DEVICE_PATH_LENGTH <= len /\ len <= MAX_PATH_LENGTH

\* parseBIP32Path: the host accepts every array of at most MAX_PATH_LENGTH
\* uint32 indexes; it sets no minimum.
parseBIP32Path(len) == len <= MAX_PATH_LENGTH

\* A call: the operation and its request.  paths is the paths argument of the
\* key operations (isArray: whether it is an array at all), valid whether the
\* request of a parsed operation passes its parser, steps the number of
\* requests the operation's own interaction yields after the version query.
Calls ==
    [op : {"getVersion"}, isArray : {TRUE}, paths : {<<>>}, valid : {TRUE}, steps : {0}]
    \cup
    [op : {"getSerial", "runTests"}, isArray : {TRUE}, paths : {<<>>},
     valid : {TRUE}, steps : {1}]
    \cup
    [op : {"getExtendedPublicKeys"}, isArray : {FALSE}, paths : {<<>>},
     valid : {TRUE}, steps : {0}]
    \cup
    { [op |-> "getExtendedPublicKeys", isArray |-> TRUE, paths |-> ps,
       valid |-> TRUE, steps |-> Len(ps)] :
        ps \in UNION { [1..n -> PathLens] : n \in 1..MaxPaths } }
    \cup
    { [op |-> "getExtendedPublicKey", isArray |-> TRUE, paths |-> <<l>>,
       valid |-> TRUE, steps |-> 1] : l \in PathLens }
    \cup
    [op : ParsedOps, isArray : {TRUE}, paths : {<<>>}, valid : {TRUE},
     steps : 1..MaxBody]
    \cup
    [op : ParsedOps, isArray : {TRUE}, paths : {<<>>}, valid : {FALSE},
     steps : {0}]

NoCall ==
    [op |-> "none", isArray |-> TRUE, paths |-> <<>>, valid |-> TRUE, steps |-> 0]


\* Variant of Validate: the request goes to interact unchecked.
ValidateNothing(c) == "ok"

\* The synchronous part of a public method before interact: the reason it
\* throws with, or "ok".
Validate(c) ==
    IF c.op \in KeyOps
    THEN IF ~c.isArray THEN "GET_EXT_PUB_KEY_PATHS_NOT_ARRAY"
         ELSE IF \E i \in 1..Len(c.paths) : ~parseBIP32Path(c.paths[i])
              THEN "INVALID_PATH"
              ELSE "ok"
    ELSE IF c.op \in ParsedOps /\ ~c.valid THEN "INVALID_REQUEST"
    ELSE "ok"

\* Requests.  declares: whether the request sets expectedResponseLength.
GetVersionRequest ==
    [ins |-> "GET_VERSION", idx |-> 0, pathLen |-> 0, declares |-> TRUE]

BodyRequest(c, i) ==
    [ins |-> Delegate(c.op), idx |-> i,
     pathLen |-> IF c.op \in KeyOps THEN c.paths[i] ELSE 0,
     declares |-> c.op # "runTests"]

\* Device versions, and the compatibility every operation but getVersion
\* checks right after the version query.
Versions == {"unsupported", "supported"}

isLedgerAppVersionCompatible(v) == v = "supported"


\* Variant of yieldsGetVersionFirst: _getSerial goes straight to getSerial.
yieldsGetVersionFirstButSerial(op) == op \in Ops \ {"getSerial"}

\* Every generator of Ada (_getVersion, _getSerial, ..., _deriveNativeScriptHash)
\* starts with yield* getVersion().
yieldsGetVersionFirst(op) == op \in Ops

\* The interaction of a call as a resumable computation: what the generator
\* does when started (j = 0) or resumed with its j-th response, the local
\* version being ver.  It yields a request, returns, or throws.
GenStep(c, j, ver) ==
    LET b == IF yieldsGetVersionFirst(c.op) THEN j ELSE j + 1
    IN IF b = 0
       THEN [kind |-> "yield", req |-> GetVersionRequest, error |-> NoError]
       ELSE IF c.op = "getVersion"
       THEN [kind |-> "return", req |-> GetVersionRequest, error |-> NoError]
       ELSE IF ~isLedgerAppVersionCompatible(ver)
       THEN [kind |-> "throw", req |-> GetVersionRequest,
             error |-> DeviceVersionUnsupported]
       ELSE IF b <= c.steps
       THEN [kind |-> "yield", req |-> BodyRequest(c, b), error |-> NoError]
       ELSE [kind |-> "return", req |-> GetVersionRequest, error |-> NoError]

\* Any interaction handed to interact: one that yields c.steps requests and
\* then returns.
Interactions ==
    [op : {"interaction"}, isArray : {TRUE}, paths : {<<>>}, valid : {TRUE},
     steps : 0..MaxBody]

InteractionStep(c, j) ==
    IF j < c.steps
    THEN [kind |-> "yield", req |-> BodyRequest(c, j + 1), error |-> NoError]
    ELSE [kind |-> "return", req |-> GetVersionRequest, error |-> NoError]

\* interaction.next(...): the step of the interaction of call c.
Cursor(c, j, ver) ==
    IF c \in Interactions THEN InteractionStep(c, j) ELSE GenStep(c, j, ver)

-----------------------------------------------------------------------------
(* The transport and the device behind it *)

\* A response frame with its status suffix stripped: the request it answers
\* (re), the version the device reports and whether the payload has the length
\* the request expects.
Responses(req, ver) == [re : {req.idx}, version : {ver}, lenOk : BOOLEAN]

NoResponse == [re |-> -1, version |-> "none", lenOk |-> TRUE]

\* The device's security policy rejects a key derivation for a path of fewer
\* than MIN_DEVICE_PATH_LENGTH indexes.
SecurityPolicyRejects(req) ==
    req.ins = "getExtendedPublicKeys" /\ req.pathLen < MIN_DEVICE_PATH_LENGTH

\* How one transport.send can settle.
Outcomes(req, ver) ==
    [ok : {FALSE}, error : RawFailures, res : {NoResponse}]
    \cup
    (IF SecurityPolicyRejects(req)
     THEN {}
     ELSE [ok : {TRUE}, error : {NoError}, res : Responses(req, ver)])

-----------------------------------------------------------------------------
(* _send and the two wrappers *)


\* Variant of wrapConvertDeviceStatusError: any statusCode property converts.
wrapConvertAnyStatusCode(e) ==
    IF e.statusCode # "none" THEN DeviceStatusError(e.statusCode) ELSE e

wrapConvertDeviceStatusError(e) ==
    IF e.numeric THEN DeviceStatusError(e.statusCode) ELSE e

\* Variant of _send: the response is returned whatever its length.
Ada_sendUnchecked(req, out) ==
    IF ~out.ok
    THEN [ok |-> FALSE, error |-> wrapConvertDeviceStatusError(out.error),
          res |-> NoResponse]
    ELSE [ok |-> TRUE, error |-> NoError, res |-> out.res]

\* _send: the converted failure, or the stripped response, or the failed
\* length assertion.
Ada_send(req, out) ==
    IF ~out.ok
    THEN [ok |-> FALSE, error |-> wrapConvertDeviceStatusError(out.error),
          res |-> NoResponse]
    ELSE IF req.declares /\ ~out.res.lenOk
    THEN [ok |-> FALSE, error |-> AssertionError, res |-> NoResponse]
    ELSE [ok |-> TRUE, error |-> NoError, res |-> out.res]

\* wrapRetryStillInCall's test on the error its first attempt threw.
IsStillInCall(e) == e.numeric /\ e.statusCode = ERR_STILL_IN_CALL


\* Variants of RetryApplies: no retry at all; a retry of any exchange; a retry
\* for as long as the device reports still-in-call.
RetryNever(isFirst, nAttempt, e) == FALSE

RetryAnyExchange(isFirst, nAttempt, e) == nAttempt = 1 /\ IsStillInCall(e)

RetryLoop(isFirst, nAttempt, e) == isFirst /\ IsStillInCall(e)

\* interact wraps only the first request; the wrapper retries only its first
\* attempt.
RetryApplies(isFirst, nAttempt, e) ==
    isFirst /\ nAttempt = 1 /\ IsStillInCall(e)


\* Variant of Resume: the interaction is resumed with the response it was
\* resumed with before.
ResumeStale(passed, res) ==
    Append(passed, IF passed = <<>> THEN res ELSE passed[Len(passed)])

\* cursor = interaction.next(res): the responses the interaction has been
\* resumed with.
Resume(passed, res) == Append(passed, res)

-----------------------------------------------------------------------------
(* Actions of the current API *)

NoResult == [set |-> FALSE, data |-> <<>>]

\* A settled call's continuation in the caller is a microtask: it runs before
\* any later call is made and before any other transport.send settles.
NoneSettling == \A q \in Procs : pc[q] \notin {"done", "failed"}


\* Variant of Reject: the error is swallowed and what was gathered is returned.
RejectSwallowed(p, e) ==
    /\ pc' = [pc EXCEPT ![p] = "done"]
    /\ result' = [result EXCEPT ![p] = [set |-> TRUE, data |-> acc[p]]]
    /\ UNCHANGED <<err, sent, attempt>>

\* The call of p rejects with e: nothing the interaction gathered is returned.
Reject(p, e) ==
    /\ pc' = [pc EXCEPT ![p] = "failed"]
    /\ err' = [err EXCEPT ![p] = e]
    /\ UNCHANGED <<result, sent, attempt>>

\* The call of p resolves with the interaction's value.
Resolve(p, data) ==
    /\ pc' = [pc EXCEPT ![p] = "done"]
    /\ result' = [result EXCEPT ![p] = [set |-> TRUE, data |-> data]]
    /\ UNCHANGED <<err, sent, attempt>>

\* Variant of Transmit: the request is numbered with the instance's count of
\* calls.
TransmitNumbered(p, req, n) ==
    /\ pc' = [pc EXCEPT ![p] = "awaiting"]
    /\ sent' = [sent EXCEPT ![p] = Append(@, [req EXCEPT !.idx = @ + calls])]
    /\ attempt' = [attempt EXCEPT ![p] = n]
    /\ UNCHANGED <<result, err>>

\* interact hands req to send, which calls transport.send.
Transmit(p, req, n) ==
    /\ pc' = [pc EXCEPT ![p] = "awaiting"]
    /\ sent' = [sent EXCEPT ![p] = Append(@, req)]
    /\ attempt' = [attempt EXCEPT ![p] = n]
    /\ UNCHANGED <<result, err>>

\* Variant of Drive: whatever the interaction yields, the version query is
\* sent.
DriveUnyielded(p, step, data) ==
    CASE step.kind = "yield"  -> Transmit(p, GetVersionRequest, 1)
      [] step.kind = "return" -> Resolve(p, data)
      [] OTHER                -> Reject(p, step.error)

\* Variant of Drive: interact returns after the first exchange.
DriveOnce(p, step, data) ==
    CASE step.kind = "yield" /\ data = <<>> -> Transmit(p, step.req, 1)
      [] step.kind = "yield" /\ data # <<>> -> Resolve(p, data)
      [] step.kind = "return" -> Resolve(p, data)
      [] OTHER                -> Reject(p, step.error)

\* interact's loop from a cursor on: send what the interaction yielded, or
\* finish with what it returned or threw.
Drive(p, step, data) ==
    CASE step.kind = "yield"  -> Transmit(p, step.req, 1)
      [] step.kind = "return" -> Resolve(p, data)
      [] OTHER                -> Reject(p, step.error)

\* A public method is called.  A decorated method waits for the guard and
\* holds it until it settles; the request is validated; interact starts the
\* interaction and sends its first request.
PublicCall(p, c) ==
    /\ mode = "ts"
    /\ NoneSettling
    /\ pc[p] = "idle"
    /\ calls < MaxCalls
    /\ Guarded(c.op) => lock = 0
    /\ calls' = calls + 1
    /\ call' = [call EXCEPT ![p] = c]
    /\ first' = [first EXCEPT ![p] = TRUE]
    /\ IF Validate(c) # "ok"
       THEN Reject(p, InvalidDataError(Validate(c)))
       ELSE Drive(p, GenStep(c, 0, "none"), <<>>)
    /\ lock' = IF Guarded(c.op) /\ pc'[p] = "awaiting" THEN p ELSE lock
    /\ UNCHANGED <<mode, devVersion, acc, version, settled, prevVersion, parser, last>>
    /\ UNCHANGED legacyVars

\* interact is called with an interaction of its own: no validation and no
\* guard are part of interact.
InteractCall(p, c) ==
    /\ mode = "ts"
    /\ NoneSettling
    /\ pc[p] = "idle"
    /\ calls < MaxCalls
    /\ calls' = calls + 1
    /\ call' = [call EXCEPT ![p] = c]
    /\ first' = [first EXCEPT ![p] = TRUE]
    /\ Drive(p, Cursor(c, 0, "none"), <<>>)
    /\ UNCHANGED <<mode, lock, devVersion, acc, version, settled, prevVersion,
                   parser, last>>
    /\ UNCHANGED legacyVars

\* The transport.send p awaits settles with out; the continuation runs up to
\* the next transport.send or to the end of the call.
SendSettles(p, out) ==
    /\ mode = "ts"
    /\ NoneSettling
    /\ pc[p] = "awaiting"
    /\ LET req == sent[p][Len(sent[p])]
           r   == Ada_send(req, out)
       IN /\ out \in Outcomes(req, devVersion)
          /\ settled' = [settled EXCEPT ![p] = Append(@, [out |-> out, thrown |-> r.error])]
          /\ IF ~r.ok
             THEN /\ IF RetryApplies(first[p], attempt[p], r.error)
                     THEN Transmit(p, req, 2)
                     ELSE Reject(p, r.error)
                  /\ UNCHANGED <<first, acc, version>>
             ELSE LET passed == Resume(acc[p], r.res)
                      ver    == IF Len(acc[p]) = 0 THEN r.res.version ELSE version[p]
                  IN /\ first' = [first EXCEPT ![p] = FALSE]
                     /\ acc' = [acc EXCEPT ![p] = passed]
                     /\ version' = [version EXCEPT ![p] = ver]
                     /\ Drive(p, Cursor(call[p], Len(passed), ver), passed)
    /\ lock' = IF lock = p /\ pc'[p] # "awaiting" THEN 0 ELSE lock
    /\ UNCHANGED <<mode, devVersion, calls, call, prevVersion, parser, last>>
    /\ UNCHANGED legacyVars

\* No call recorded.
NoLast ==
    [set |-> FALSE, call |-> NoCall, sent |-> <<>>, settled |-> <<>>,
     result |-> NoResult, err |-> NoError]

\* The caller takes the outcome of its call: nothing of the call is kept.
Forget(p) ==
    /\ pc[p] \in {"done", "failed"}
    /\ pc' = [pc EXCEPT ![p] = "idle"]
    /\ prevVersion' = IF version[p] # "none" THEN version[p] ELSE prevVersion
    /\ call' = [call EXCEPT ![p] = NoCall]
    /\ first' = [first EXCEPT ![p] = FALSE]
    /\ attempt' = [attempt EXCEPT ![p] = 0]
    /\ sent' = [sent EXCEPT ![p] = <<>>]
    /\ acc' = [acc EXCEPT ![p] = <<>>]
    /\ version' = [version EXCEPT ![p] = "none"]
    /\ result' = [result EXCEPT ![p] = NoResult]
    /\ err' = [err EXCEPT ![p] = NoError]
    /\ settled' = [settled EXCEPT ![p] = <<>>]
    /\ tx' = [tx EXCEPT ![p] = <<>>]
    /\ off' = [off EXCEPT ![p] = 0]
    /\ chunks' = [chunks EXCEPT ![p] = <<>>]
    /\ response' = [response EXCEPT ![p] = <<>>]
    /\ UNCHANGED <<mode, lock, devVersion, calls, parser>>

\* The caller takes the outcome of its call; it may call again.
Settled(p) == Forget(p) /\ UNCHANGED last

\* The same, the observer noting what the call was given, what it sent, how
\* each send settled and how the call ended.
SettledRecorded(p) ==
    /\ Forget(p)
    /\ last' = [set |-> TRUE, call |-> call[p], sent |-> sent[p],
                settled |-> settled[p], result |-> result[p], err |-> err[p]]

\* Another device is connected: between calls the version can change.
DeviceChanges ==
    /\ mode = "ts"
    /\ \A p \in Procs : pc[p] = "idle"
    /\ \E v \in Versions \ {devVersion} : devVersion' = v
    /\ UNCHANGED <<mode, lock, calls, pc, call, first, attempt, sent, acc,
                   version, result, err, settled, prevVersion, parser, last>>
    /\ UNCHANGED legacyVars

-----------------------------------------------------------------------------
(* The legacy API (Ada.js): setTransaction *)

P1_FIRST == 1
P1_NEXT  == 2
P1_LAST  == 3
P2_SINGLE_TX == 1
P2_MULTI_TX  == 2
MAX_APDU_SIZE == 64
OFFSET_CDATA  == 5

\* Variant of chunkSize: the header is not deducted.
chunkSizeWhole == MAX_APDU_SIZE

chunkSize == MAX_APDU_SIZE - OFFSET_CDATA

\* The list the legacy constructor hands to transport.decorateAppAPIMethods;
\* setTransaction is not on it.
legacyMethods ==
    { "isConnected", "getWalletRecoveryPassphrase", "getWalletPublicKeyWithIndex",
      "signTransaction" }

LegacyGuarded(op) == op \in legacyMethods

\* txHex arguments: a string of n hex digits, the j-th digit being
\* HexDigit(seed, j).  The lengths lie around the multiples of the chunk size.
HexDigit(seed, j) == (seed + 5 * j) % 16

TxByteLens ==
    { l \in 0..(MaxChunks * chunkSize + 1) :
        \E m \in 0..MaxChunks : l \in {m * chunkSize - 1, m * chunkSize, m * chunkSize + 1} }

TxHexes ==
    { [j \in 1..n |-> HexDigit(seed, j)] :
        n \in { 2 * l + d : l \in TxByteLens, d \in {0, 1} }, seed \in {3} }

\* Buffer.from(txHex, "hex"): one byte per pair of digits; a trailing single
\* digit is dropped.
BufferFromHex(hex) ==
    [j \in 1..(Len(hex) \div 2) |-> 16 * hex[2 * j - 1] + hex[2 * j]]

\* Variant of Slice: the slice stops one byte early.
SliceShort(buf, from, to) ==
    LET end == IF to < Len(buf) THEN to ELSE Len(buf)
    IN [j \in 1..(end - from - 1) |-> buf[from + j]]

\* Buffer.slice(from, to) with 0-based offsets, to clamped to the length.
Slice(buf, from, to) ==
    LET end == IF to < Len(buf) THEN to ELSE Len(buf)
    IN [j \in 1..(end - from) |-> buf[from + j]]

\* The frame setTransaction sends in the loop iteration with offset i.
ChunkP1(i, len) ==
    IF i = 0 THEN P1_FIRST
    ELSE IF i + chunkSize >= len THEN P1_LAST
    ELSE P1_NEXT

ChunkP2(len) == IF len < chunkSize THEN P2_SINGLE_TX ELSE P2_MULTI_TX

ChunkFrame(rawTx, i) ==
    [p1 |-> ChunkP1(i, Len(rawTx)), p2 |-> ChunkP2(Len(rawTx)),
     data |-> Slice(rawTx, i, i + chunkSize)]

\* A response of the legacy app: long when it has more than 4 bytes and so
\* carries a summary (inputs, outputs, txs); truncated when it is shorter
\* than the outputs it announces, so that reading them throws.
Summaries == {"s1", "s2"}

LegacyResponses ==
    [long : {FALSE}, summary : {"none"}, truncated : {FALSE}]
    \cup [long : {TRUE}, summary : Summaries, truncated : {FALSE}]
    \cup [long : {TRUE}, summary : {"none"}, truncated : {TRUE}]

NoLegacyResponse == [long |-> FALSE, summary |-> "none", truncated |-> FALSE]

RangeError == [cls |-> "RangeError", statusCode |-> "none", numeric |-> FALSE]

LegacyOutcomes ==
    [ok : {FALSE}, error : RawFailures, res : {NoLegacyResponse}]
    \cup [ok : {TRUE}, error : {NoError}, res : LegacyResponses]

\* The loop body after the await: `response` after res has been read.
ReadResponse(resp, res) == IF res.long THEN <<res.summary>> ELSE resp

\* Variant of NextOffset: the loop variable does not advance.
NextOffsetStuck(i) == i

\* The loop's step: i += chunkSize.
NextOffset(i) == i + chunkSize

\* One loop iteration from the offset i on: send the chunk at i, or leave the
\* loop and return `response`.
Iterate(p, rawTx, i, resp) ==
    /\ off' = [off EXCEPT ![p] = i]
    /\ response' = [response EXCEPT ![p] = resp]
    /\ IF i < Len(rawTx)
       THEN /\ chunks' = [chunks EXCEPT ![p] = Append(@, ChunkFrame(rawTx, i))]
            /\ pc' = [pc EXCEPT ![p] = "awaiting"]
            /\ UNCHANGED <<result, err>>
       ELSE /\ pc' = [pc EXCEPT ![p] = "done"]
            /\ result' = [result EXCEPT ![p] = [set |-> TRUE, data |-> resp]]
            /\ UNCHANGED <<chunks, err>>

setTransaction(p, txHex) ==
    /\ mode = "legacy"
    /\ NoneSettling
    /\ pc[p] = "idle"
    /\ calls < MaxCalls
    /\ LegacyGuarded("setTransaction") => lock = 0
    /\ calls' = calls + 1
    /\ tx' = [tx EXCEPT ![p] = txHex]
    /\ Iterate(p, BufferFromHex(txHex), 0, <<>>)
    /\ lock' = IF LegacyGuarded("setTransaction") /\ pc'[p] = "awaiting"
               THEN p ELSE lock
    /\ UNCHANGED <<mode, settled, prevVersion, parser, last>>
    /\ UNCHANGED tsVars

\* The transport.send of the current chunk settles with out.
ChunkSettles(p, out) ==
    /\ mode = "legacy"
    /\ NoneSettling
    /\ pc[p] = "awaiting"
    /\ LET e == IF ~out.ok THEN out.error
                ELSE IF out.res.truncated THEN RangeError
                ELSE NoError
       IN /\ settled' = [settled EXCEPT ![p] = Append(@, [out |-> out, thrown |-> e])]
          /\ IF e # NoError
             THEN /\ pc' = [pc EXCEPT ![p] = "failed"]
                  /\ err' = [err EXCEPT ![p] = e]
                  /\ UNCHANGED <<result, off, chunks, response>>
             ELSE Iterate(p, BufferFromHex(tx[p]), NextOffset(off[p]),
                          ReadResponse(response[p], out.res))
    /\ lock' = IF lock = p /\ pc'[p] # "awaiting" THEN 0 ELSE lock
    /\ UNCHANGED <<mode, calls, tx, prevVersion, parser, last>>
    /\ UNCHANGED tsVars

-----------------------------------------------------------------------------
(* The request parser (parsing.ts): values *)

\* A parser's outcome: the reason it throws with ("none" when it returns) and
\* the value it returns.
Ok(v)        == [error |-> "none", value |-> v]
Fail(reason) == [error |-> reason, value |-> <<>>]

\* The outcome of list.map(f): the first element f throws on decides.
RECURSIVE FirstError(_)
FirstError(rs) ==
    IF rs = <<>> THEN "none"
    ELSE IF rs[1].error # "none" THEN rs[1].error
    ELSE FirstError(Tail(rs))

\* list.map(f), rs being the outcomes of f on the elements in order.
MapParse(rs) ==
    IF FirstError(rs) # "none" THEN Fail(FirstError(rs))
    ELSE Ok([i \in 1..Len(rs) |-> rs[i].value])

\* A derivation path argument: whether one is given, and its number of indexes.
NoPath      == [given |-> FALSE, len |-> 0]
PathOf(len) == [given |-> TRUE, len |-> len]

\* Precondition.checkIsValidPath.
checkIsValidPath(path) == path.given /\ parseBIP32Path(path.len)

\* A string argument meant as hex: absent, a string of hex digits for so many
\* bytes, or some other text.
NoHex      == [kind |-> "absent", bytes |-> 0]
HexOf(n)   == [kind |-> "hex", bytes |-> n]
NotHex     == [kind |-> "text", bytes |-> 0]

checkIsHexString(str) == str.kind = "hex"

checkIsHexStringOfLength(str, n) == str.kind = "hex" /\ str.bytes = n

\* A string argument meant as a decimal number: its characters, the digits
\* 0..9 and NonDigit for any other character.
NonDigit == 10

RECURSIVE LexLeq(_, _)
LexLeq(a, b) ==
    IF a = <<>> THEN TRUE
    ELSE IF a[1] # b[1] THEN a[1] < b[1]
    ELSE LexLeq(Tail(a), Tail(b))

\* Precondition.checkIsValidUintStr: decimal digits, no leading zero, at most
\* maxValue.
isValidUintStr(str, maxValue) ==
    /\ Len(str) > 0
    /\ \A i \in 1..Len(str) : str[i] # NonDigit
    /\ Len(str) <= Len(maxValue)
    /\ (Len(str) = 1 \/ str[1] # 0)
    /\ (Len(str) < Len(maxValue) \/ LexLeq(str, maxValue))

MAX_UINT_64_STR == <<1,8,4,4,6,7,4,4,0,7,3,7,0,9,5,5,1,6,1,5>>
MAX_LOVELACE_SUPPLY_STR == <<4,5,0,0,0,0,0,0,0,0,0,0,0,0,0,0,0>>
POOL_MARGIN_DENOMINATOR_MAX_STR == <<1,0,0,0,0,0,0,0,0,0,0,0,0,0,0,0,0,0,0>>

checkIsUint64Str(str) == isValidUintStr(str, MAX_UINT_64_STR)

checkIsPositiveUint64Str(str) == checkIsUint64Str(str) /\ str # <<0>>

checkIsValidAdaAmount(str) == isValidUintStr(str, MAX_LOVELACE_SUPPLY_STR)

checkIsValidPoolMarginDenominator(str) ==
    isValidUintStr(str, POOL_MARGIN_DENOMINATOR_MAX_STR)

\* A list argument given as runs: each run is an element and the number of
\* times it is repeated in a row.
RunsLength(runs) ==
    LET RECURSIVE Sum(_)
        Sum(k) == IF k = 0 THEN 0 ELSE runs[k].times + Sum(k - 1)
    IN Sum(Len(runs))

\* A filter that keeps every element.
RunsOfAnyType(runs, type) == runs

\* The runs whose element has the given type.
RunsOfType(runs, type) ==
    LET keep == {k \in 1..Len(runs) : runs[k].item.type = type}
        RECURSIVE Pick(_)
        Pick(k) == IF k > Len(runs) THEN <<>>
                   ELSE IF k \in keep THEN <<runs[k]>> \o Pick(k + 1)
                   ELSE Pick(k + 1)
    IN Pick(1)

\* list.map(f) for a list given as runs, rs being the outcomes of f on the
\* element of each run.
MapParseRuns(rs, runs) ==
    IF FirstError(rs) # "none" THEN Fail(FirstError(rs))
    ELSE Ok([i \in 1..Len(runs) |-> [item |-> rs[i].value, times |-> runs[i].times]])

-----------------------------------------------------------------------------
(* The request parser: pool registration parameters *)

KEY_HASH_LENGTH == 28
TX_HASH_LENGTH  == 32
TOKEN_POLICY_LENGTH == 28
TOKEN_NAME_LENGTH   == 32
ASSET_GROUPS_MAX    == 1000
TOKENS_IN_GROUP_MAX == 1000
POOL_REGISTRATION_OWNERS_MAX == 1000
POOL_REGISTRATION_RELAYS_MAX == 1000
VRF_KEY_HASH_LENGTH    == 32
REWARD_ACCOUNT_LENGTH  == 29
METADATA_HASH_LENGTH   == 32

PoolOwnerType_PATH     == 1
PoolOwnerType_KEY_HASH == 2

RelayType_SingleHostAddr == 0
RelayType_SingleHostName == 1
RelayType_MultiHostName  == 2

\* JavaScript truthiness of the two optional fields of an owner.
PathTruthy(path) == path.given

HexTruthy(str) == str.kind = "text" \/ (str.kind = "hex" /\ str.bytes > 0)

\* parseMargin without its last check (numerator against denominator).
parseMarginUnordered(params) ==
    IF ~checkIsUint64Str(params.numeratorStr)
    THEN Fail("CERTIFICATE_POOL_INVALID_MARGIN")
    ELSE IF ~checkIsValidPoolMarginDenominator(params.denominatorStr)
    THEN Fail("CERTIFICATE_POOL_INVALID_MARGIN_DENOMINATOR")
    ELSE Ok([numeratorStr |-> params.numeratorStr,
             denominatorStr |-> params.denominatorStr])

parseMargin(params) ==
    IF ~checkIsUint64Str(params.numeratorStr)
    THEN Fail("CERTIFICATE_POOL_INVALID_MARGIN")
    ELSE IF ~checkIsValidPoolMarginDenominator(params.denominatorStr)
    THEN Fail("CERTIFICATE_POOL_INVALID_MARGIN_DENOMINATOR")
    ELSE IF ~isValidUintStr(params.numeratorStr, params.denominatorStr)
    THEN Fail("CERTIFICATE_POOL_INVALID_MARGIN")
    ELSE Ok([numeratorStr |-> params.numeratorStr,
             denominatorStr |-> params.denominatorStr])

\* Variant of parsePoolOwnerParams: the key hash is looked at before the path.
parsePoolOwnerParamsKeyHashFirst(params) ==
    IF HexTruthy(params.stakingKeyHashHex)
    THEN IF ~checkIsHexStringOfLength(params.stakingKeyHashHex, KEY_HASH_LENGTH)
         THEN Fail("CERTIFICATE_POOL_OWNER_INVALID_KEY_HASH")
         ELSE Ok([type |-> PoolOwnerType_KEY_HASH, hashHex |-> params.stakingKeyHashHex])
    ELSE IF PathTruthy(params.stakingPath)
    THEN IF ~checkIsValidPath(params.stakingPath)
         THEN Fail("CERTIFICATE_POOL_OWNER_INVALID_PATH")
         ELSE Ok([type |-> PoolOwnerType_PATH, path |-> params.stakingPath.len])
    ELSE Fail("CERTIFICATE_POOL_OWNER_INCOMPLETE")

parsePoolOwnerParams(params) ==
    IF PathTruthy(params.stakingPath)
    THEN IF ~checkIsValidPath(params.stakingPath)
         THEN Fail("CERTIFICATE_POOL_OWNER_INVALID_PATH")
         ELSE Ok([type |-> PoolOwnerType_PATH, path |-> params.stakingPath.len])
    ELSE IF HexTruthy(params.stakingKeyHashHex)
    THEN IF ~checkIsHexStringOfLength(params.stakingKeyHashHex, KEY_HASH_LENGTH)
         THEN Fail("CERTIFICATE_POOL_OWNER_INVALID_KEY_HASH")
         ELSE Ok([type |-> PoolOwnerType_KEY_HASH, hashHex |-> params.stakingKeyHashHex])
    ELSE Fail("CERTIFICATE_POOL_OWNER_INCOMPLETE")

\* A relay: its type and, for each field, whether it is absent, valid or
\* invalid for the field's parser (parsePort, parseIPv4, parseIPv6,
\* parseDnsName).
parsePoolRelayParams(relayParams) ==
    LET port == IF relayParams.portNumber = "invalid"
                THEN "CERTIFICATE_POOL_RELAY_INVALID_PORT" ELSE "none"
        ipv4 == IF relayParams.ipv4 = "invalid"
                THEN "CERTIFICATE_POOL_RELAY_INVALID_IPV4" ELSE "none"
        ipv6 == IF relayParams.ipv6 = "invalid"
                THEN "CERTIFICATE_POOL_RELAY_INVALID_IPV6" ELSE "none"
        dns  == IF relayParams.dnsName # "valid"
                THEN "CERTIFICATE_POOL_RELAY_INVALID_DNS" ELSE "none"
        checks ==
            CASE relayParams.type = RelayType_SingleHostAddr -> <<port, ipv4, ipv6>>
              [] relayParams.type = RelayType_SingleHostName -> <<port, dns>>
              [] relayParams.type = RelayType_MultiHostName  -> <<dns>>
              [] OTHER -> <<"CERTIFICATE_POOL_RELAY_INVALID_TYPE">>
        failed == {i \in 1..Len(checks) : checks[i] # "none"}
    IN IF failed = {}
       THEN Ok([type |-> relayParams.type])
       ELSE Fail(checks[CHOOSE i \in failed : \A k \in failed : i <= k])

parsePoolMetadataParams(params) ==
    IF ~params.given THEN Ok([given |-> FALSE])
    ELSE IF params.metadataUrl # "valid"
    THEN Fail("CERTIFICATE_POOL_METADATA_INVALID_URL")
    ELSE IF ~checkIsHexStringOfLength(params.metadataHashHex, METADATA_HASH_LENGTH)
    THEN Fail("CERTIFICATE_POOL_METADATA_INVALID_HASH")
    ELSE Ok([given |-> TRUE, hashHex |-> params.metadataHashHex])

parsePoolParams(params) ==
    LET margin   == parseMargin(params.margin)
        owners   == MapParseRuns([i \in 1..Len(params.poolOwners) |->
                                     parsePoolOwnerParams(params.poolOwners[i].item)],
                                 params.poolOwners)
        relays   == MapParseRuns([i \in 1..Len(params.relays) |->
                                     parsePoolRelayParams(params.relays[i].item)],
                                 params.relays)
        metadata == parsePoolMetadataParams(params.metadata)
    IN IF ~checkIsHexStringOfLength(params.poolKeyHashHex, KEY_HASH_LENGTH)
       THEN Fail("CERTIFICATE_POOL_INVALID_POOL_KEY_HASH")
       ELSE IF ~checkIsHexStringOfLength(params.vrfKeyHashHex, VRF_KEY_HASH_LENGTH)
       THEN Fail("CERTIFICATE_POOL_INVALID_VRF_KEY_HASH")
       ELSE IF ~checkIsValidAdaAmount(params.pledgeStr)
       THEN Fail("CERTIFICATE_POOL_INVALID_PLEDGE")
       ELSE IF ~checkIsValidAdaAmount(params.costStr)
       THEN Fail("CERTIFICATE_POOL_INVALID_COST")
       ELSE IF margin.error # "none" THEN Fail(margin.error)
       ELSE IF ~checkIsHexStringOfLength(params.rewardAccountHex, REWARD_ACCOUNT_LENGTH)
       THEN Fail("CERTIFICATE_POOL_INVALID_REWARD_ACCOUNT")
       ELSE IF owners.error # "none" THEN Fail(owners.error)
       ELSE IF relays.error # "none" THEN Fail(relays.error)
       ELSE IF metadata.error # "none" THEN Fail(metadata.error)
       ELSE IF RunsLength(owners.value) > POOL_REGISTRATION_OWNERS_MAX
       THEN Fail("CERTIFICATE_POOL_OWNERS_TOO_MANY")
       ELSE IF RunsLength(relays.value) > POOL_REGISTRATION_RELAYS_MAX
       THEN Fail("CERTIFICATE_POOL_RELAYS_TOO_MANY")
       ELSE IF RunsLength(RunsOfType(owners.value, PoolOwnerType_PATH)) # 1
       THEN Fail("CERTIFICATE_POOL_OWNERS_SINGLE_PATH")
       ELSE Ok([keyHashHex |-> params.poolKeyHashHex,
                vrfHashHex |-> params.vrfKeyHashHex,
                pledgeStr |-> params.pledgeStr,
                costStr |-> params.costStr,
                margin |-> margin.value,
                rewardAccountHex |-> params.rewardAccountHex,
                owners |-> owners.value,
                relays |-> relays.value,
                metadata |-> metadata.value])

-----------------------------------------------------------------------------
(* The request parser: certificates and transactions *)

STAKE_REGISTRATION      == 0
STAKE_DEREGISTRATION    == 1
STAKE_DELEGATION        == 2
STAKE_POOL_REGISTRATION == 3

\* The first reason of a sequence of checks made in order ("none": passed).
RECURSIVE FirstReason(_)
FirstReason(reasons) ==
    IF reasons = <<>> THEN "none"
    ELSE IF reasons[1] # "none" THEN reasons[1]
    ELSE FirstReason(Tail(reasons))

Check(cond, reason) == IF cond THEN "none" ELSE reason

\* Variant of parseCertificate: a pool key hash given with a stake
\* (de)registration is ignored.
parseCertificateIgnoringKeyHash(cert) ==
    CASE cert.type \in {STAKE_REGISTRATION, STAKE_DEREGISTRATION} ->
            IF ~checkIsValidPath(cert.path)
            THEN Fail("CERTIFICATE_MISSING_PATH")
            ELSE Ok([type |-> cert.type, path |-> cert.path.len])
      [] cert.type = STAKE_DELEGATION ->
            IF ~checkIsValidPath(cert.path)
            THEN Fail("CERTIFICATE_MISSING_PATH")
            ELSE IF ~checkIsHexStringOfLength(cert.poolKeyHashHex, KEY_HASH_LENGTH)
            THEN Fail("CERTIFICATE_MISSING_POOL_KEY_HASH")
            ELSE Ok([type |-> cert.type, path |-> cert.path.len,
                     poolKeyHashHex |-> cert.poolKeyHashHex])
      [] cert.type = STAKE_POOL_REGISTRATION ->
            IF ~cert.poolRegistrationParams.given
            THEN Fail("TypeError")
            ELSE LET pool == parsePoolParams(cert.poolRegistrationParams.params)
                 IN IF pool.error # "none" THEN Fail(pool.error)
                    ELSE Ok([type |-> cert.type, pool |-> pool.value])
      [] OTHER -> Fail("CERTIFICATE_INVALID")

parseCertificate(cert) ==
    CASE cert.type \in {STAKE_REGISTRATION, STAKE_DEREGISTRATION} ->
            IF ~checkIsValidPath(cert.path)
            THEN Fail("CERTIFICATE_MISSING_PATH")
            ELSE IF cert.poolKeyHashHex.kind # "absent"
            THEN Fail("CERTIFICATE_SUPERFLUOUS_POOL_KEY_HASH")
            ELSE Ok([type |-> cert.type, path |-> cert.path.len])
      [] cert.type = STAKE_DELEGATION ->
            IF ~checkIsValidPath(cert.path)
            THEN Fail("CERTIFICATE_MISSING_PATH")
            ELSE IF ~checkIsHexStringOfLength(cert.poolKeyHashHex, KEY_HASH_LENGTH)
            THEN Fail("CERTIFICATE_MISSING_POOL_KEY_HASH")
            ELSE Ok([type |-> cert.type, path |-> cert.path.len,
                     poolKeyHashHex |-> cert.poolKeyHashHex])
      [] cert.type = STAKE_POOL_REGISTRATION ->
            IF ~cert.poolRegistrationParams.given
            THEN Fail("TypeError")
            ELSE LET pool == parsePoolParams(cert.poolRegistrationParams.params)
                 IN IF pool.error # "none" THEN Fail(pool.error)
                    ELSE Ok([type |-> cert.type, pool |-> pool.value])
      [] OTHER -> Fail("CERTIFICATE_INVALID")


\* Variant of parseCertificates: any combination of certificates passes.
parseCertificatesAnyCombination(certificates) ==
    IF ~certificates.isArray THEN Fail("CERTIFICATES_NOT_ARRAY")
    ELSE MapParse([i \in 1..Len(certificates.items) |->
                     parseCertificate(certificates.items[i])])

parseCertificates(certificates) ==
    IF ~certificates.isArray THEN Fail("CERTIFICATES_NOT_ARRAY")
    ELSE LET parsed == MapParse([i \in 1..Len(certificates.items) |->
                                    parseCertificate(certificates.items[i])])
         IN IF parsed.error # "none" THEN parsed
            ELSE IF ~( (\A i \in 1..Len(parsed.value) :
                           parsed.value[i].type # STAKE_POOL_REGISTRATION)
                       \/ Len(parsed.value) = 1 )
            THEN Fail("CERTIFICATES_COMBINATION_FORBIDDEN")
            ELSE parsed


\* Variant of isSigningPoolRegistrationAsOwner: never.
isNeverSigningPoolRegistrationAsOwner(certificates) == FALSE

\* certificates.some(cert => cert.type === STAKE_POOL_REGISTRATION)
isSigningPoolRegistrationAsOwner(certificates) ==
    \E i \in 1..Len(certificates.items) :
        certificates.items[i].type = STAKE_POOL_REGISTRATION

\* The checks of one input, one token, one asset group, one output and one
\* withdrawal, in the order validateTransaction makes them.
ValidateInput(input, asOwner) ==
    FirstReason(<<
        Check(checkIsHexStringOfLength(input.txHashHex, TX_HASH_LENGTH),
              "INPUT_INVALID_TX_HASH"),
        Check(asOwner => ~input.path.given, "INPUT_WITH_PATH") >>)

ValidateToken(token) ==
    FirstReason(<<
        Check(checkIsHexString(token.assetNameHex), "OUTPUT_INVALID_ASSET_NAME"),
        Check(2 * token.assetNameHex.bytes <= TOKEN_NAME_LENGTH * 2,
              "OUTPUT_INVALID_ASSET_NAME"),
        Check(checkIsUint64Str(token.amountStr), "UNSPECIFIED") >>)

ValidateAssetGroup(assetGroup) ==
    FirstReason(<<
        Check(checkIsHexStringOfLength(assetGroup.policyIdHex, TOKEN_POLICY_LENGTH),
              "OUTPUT_INVALID_TOKEN_POLICY"),
        Check(assetGroup.tokens.isArray, "UNSPECIFIED"),
        Check(RunsLength(assetGroup.tokens.items) <= TOKENS_IN_GROUP_MAX, "UNSPECIFIED"),
        FirstReason([i \in 1..Len(assetGroup.tokens.items) |->
                        ValidateToken(assetGroup.tokens.items[i].item)]) >>)

ValidateOutput(output, asOwner) ==
    FirstReason(<<
        Check(output.serializable, "OUTPUT_INVALID"),
        Check(output.spendingPath.given => ~asOwner, "OUTPUT_WITH_PATH"),
        IF ~output.tokenBundle.given THEN "none"
        ELSE FirstReason(<<
                Check(output.tokenBundle.isArray, "OUTPUT_INVALID_TOKEN_BUNDLE"),
                Check(RunsLength(output.tokenBundle.items) <= ASSET_GROUPS_MAX,
                      "UNSPECIFIED"),
                FirstReason([i \in 1..Len(output.tokenBundle.items) |->
                                ValidateAssetGroup(output.tokenBundle.items[i].item)]) >>) >>)

\* Variant of WithdrawalsAllowed: withdrawals are allowed with any certificate.
WithdrawalsAlwaysAllowed(asOwner, withdrawals) == TRUE

\* if (isSigningPoolRegistrationAsOwner && withdrawals.length > 0) throw
WithdrawalsAllowed(asOwner, withdrawals) ==
    ~(asOwner /\ Len(withdrawals.items) > 0)

ValidateWithdrawal(withdrawal) ==
    FirstReason(<<
        Check(checkIsValidAdaAmount(withdrawal.amountStr), "UNSPECIFIED"),
        Check(checkIsValidPath(withdrawal.path), "UNSPECIFIED") >>)

\* Variant of validateTransaction: the withdrawals are checked before the
\* certificates.
validateTransactionWithdrawalsFirst(t) ==
    IF ~t.certificates.isArray THEN Fail("CERTIFICATES_NOT_ARRAY")
    ELSE
    LET asOwner == isSigningPoolRegistrationAsOwner(t.certificates)
        reason ==
          FirstReason(<<
            Check(t.inputs.isArray, "INPUTS_NOT_ARRAY"),
            FirstReason([i \in 1..Len(t.inputs.items) |->
                            ValidateInput(t.inputs.items[i], asOwner)]),
            Check(t.outputs.isArray, "OUTPUTS_NOT_ARRAY"),
            FirstReason([i \in 1..Len(t.outputs.items) |->
                            ValidateOutput(t.outputs.items[i], asOwner)]),
            Check(checkIsValidAdaAmount(t.feeStr), "FEE_INVALID"),
            Check(t.ttlStr.given => checkIsPositiveUint64Str(t.ttlStr.str),
                  "TTL_INVALID"),
            Check(t.withdrawals.isArray, "WITHDRAWALS_NOT_ARRAY"),
            Check(WithdrawalsAllowed(asOwner, t.withdrawals), "WITHDRAWALS_FORBIDDEN"),
            FirstReason([i \in 1..Len(t.withdrawals.items) |->
                            ValidateWithdrawal(t.withdrawals.items[i])]),
            parseCertificates(t.certificates).error,
            Check(t.metadataHashHex.kind # "absent"
                    => checkIsHexStringOfLength(t.metadataHashHex, METADATA_HASH_LENGTH),
                  "METADATA_INVALID"),
            Check(t.validityIntervalStartStr.given
                    => checkIsPositiveUint64Str(t.validityIntervalStartStr.str),
                  "VALIDITY_INTERVAL_START_INVALID") >>)
    IN IF reason # "none" THEN Fail(reason) ELSE Ok(<<>>)

validateTransaction(t) ==
    IF ~t.certificates.isArray THEN Fail("CERTIFICATES_NOT_ARRAY")
    ELSE
    LET asOwner == isSigningPoolRegistrationAsOwner(t.certificates)
        reason ==
          FirstReason(<<
            Check(t.inputs.isArray, "INPUTS_NOT_ARRAY"),
            FirstReason([i \in 1..Len(t.inputs.items) |->
                            ValidateInput(t.inputs.items[i], asOwner)]),
            Check(t.outputs.isArray, "OUTPUTS_NOT_ARRAY"),
            FirstReason([i \in 1..Len(t.outputs.items) |->
                            ValidateOutput(t.outputs.items[i], asOwner)]),
            Check(checkIsValidAdaAmount(t.feeStr), "FEE_INVALID"),
            Check(t.ttlStr.given => checkIsPositiveUint64Str(t.ttlStr.str),
                  "TTL_INVALID"),
            parseCertificates(t.certificates).error,
            Check(t.withdrawals.isArray, "WITHDRAWALS_NOT_ARRAY"),
            Check(WithdrawalsAllowed(asOwner, t.withdrawals), "WITHDRAWALS_FORBIDDEN"),
            FirstReason([i \in 1..Len(t.withdrawals.items) |->
                            ValidateWithdrawal(t.withdrawals.items[i])]),
            Check(t.metadataHashHex.kind # "absent"
                    => checkIsHexStringOfLength(t.metadataHashHex, METADATA_HASH_LENGTH),
                  "METADATA_INVALID"),
            Check(t.validityIntervalStartStr.given
                    => checkIsPositiveUint64Str(t.validityIntervalStartStr.str),
                  "VALIDITY_INTERVAL_START_INVALID") >>)
    IN IF reason # "none" THEN Fail(reason) ELSE Ok(<<>>)

-----------------------------------------------------------------------------
(* The request parser: arguments and calls *)

\* An array argument, and an argument that is not an array.
ArrayOf(items) == [isArray |-> TRUE, items |-> items]
NotArray       == [isArray |-> FALSE, items |-> <<>>]

ListsUpTo(S, n) == UNION { [1..k -> S] : k \in 0..n }

Once(x) == [item |-> x, times |-> 1]

PathOwner    == [stakingPath |-> PathOf(5), stakingKeyHashHex |-> NoHex]
KeyHashOwner == [stakingPath |-> NoPath, stakingKeyHashHex |-> HexOf(KEY_HASH_LENGTH)]

ValidRelay ==
    [type |-> RelayType_SingleHostName, portNumber |-> "valid", ipv4 |-> "absent",
     ipv6 |-> "absent", dnsName |-> "valid"]

ValidPool ==
    [poolKeyHashHex |-> HexOf(KEY_HASH_LENGTH),
     vrfKeyHashHex |-> HexOf(VRF_KEY_HASH_LENGTH),
     pledgeStr |-> <<5, 0>>,
     costStr |-> <<3>>,
     margin |-> [numeratorStr |-> <<1>>, denominatorStr |-> <<2, 0>>],
     rewardAccountHex |-> HexOf(REWARD_ACCOUNT_LENGTH),
     poolOwners |-> <<Once(KeyHashOwner), Once(PathOwner)>>,
     relays |-> <<Once(ValidRelay)>>,
     metadata |-> [given |-> FALSE, metadataUrl |-> "valid", metadataHashHex |-> NoHex]]

\* Pool parameters: valid ones, and ones that each fail one check.
Pools ==
    { ValidPool,
      [ValidPool EXCEPT !.pledgeStr = <<NonDigit>>],
      [ValidPool EXCEPT !.margin = [numeratorStr |-> <<3>>, denominatorStr |-> <<2>>]],
      [ValidPool EXCEPT !.poolOwners = <<Once(KeyHashOwner)>>],
      [ValidPool EXCEPT !.relays = <<Once([ValidRelay EXCEPT !.dnsName = "invalid"])>>],
      [ValidPool EXCEPT !.metadata = [given |-> TRUE, metadataUrl |-> "valid",
                                      metadataHashHex |-> HexOf(KEY_HASH_LENGTH)]] }

\* Owner and relay lists of every size around the two maxima: lists of at most
\* MaxRuns runs, a run being one element repeated 1, max - 1, max or max + 1
\* times.
IncompleteOwner == [stakingPath |-> NoPath, stakingKeyHashHex |-> NoHex]

OwnerRuns ==
    [item : {PathOwner, KeyHashOwner, IncompleteOwner},
     times : {1, POOL_REGISTRATION_OWNERS_MAX - 1, POOL_REGISTRATION_OWNERS_MAX,
              POOL_REGISTRATION_OWNERS_MAX + 1}]

OwnerLists == ListsUpTo(OwnerRuns, MaxRuns)

RelayLists ==
    { <<>>,
      <<Once([ValidRelay EXCEPT !.dnsName = "invalid"])>>,
      <<[item |-> ValidRelay, times |-> POOL_REGISTRATION_RELAYS_MAX - 1]>>,
      <<[item |-> ValidRelay, times |-> POOL_REGISTRATION_RELAYS_MAX]>>,
      <<[item |-> ValidRelay, times |-> POOL_REGISTRATION_RELAYS_MAX + 1]>> }

PoolsOfAnySize ==
    { [ValidPool EXCEPT !.poolOwners = owners, !.relays = relays, !.pledgeStr = pledge] :
        owners \in OwnerLists, relays \in RelayLists,
        pledge \in { ValidPool.pledgeStr, <<NonDigit>> } }

\* Owners: no path, a valid one, the empty one or one too long; no key hash, the
\* empty string, a hash of the right length, one too short, or other text.
Owners ==
    [stakingPath : {NoPath, PathOf(0), PathOf(5), PathOf(MAX_PATH_LENGTH + 1)},
     stakingKeyHashHex : {NoHex, HexOf(0), HexOf(KEY_HASH_LENGTH),
                          HexOf(KEY_HASH_LENGTH - 1), NotHex}]

UnknownCertificateType == STAKE_POOL_REGISTRATION + 1

NoPoolParams == [given |-> FALSE, params |-> ValidPool]

Certificates ==
    [type : {STAKE_REGISTRATION, STAKE_DEREGISTRATION, STAKE_DELEGATION,
             UnknownCertificateType},
     path : {NoPath, PathOf(5)},
     poolKeyHashHex : {NoHex, HexOf(KEY_HASH_LENGTH)},
     poolRegistrationParams : {NoPoolParams}]
    \cup
    [type : {STAKE_POOL_REGISTRATION},
     path : {NoPath},
     poolKeyHashHex : {NoHex},
     poolRegistrationParams : {NoPoolParams} \cup [given : {TRUE}, params : Pools]]

\* Certificates of every type with every combination of the optional fields,
\* those of other variants included.
CertificatesOfAnyShape ==
    [type : {STAKE_REGISTRATION, STAKE_DEREGISTRATION, STAKE_DELEGATION,
             STAKE_POOL_REGISTRATION, UnknownCertificateType},
     path : {NoPath, PathOf(5), PathOf(MAX_PATH_LENGTH + 1)},
     poolKeyHashHex : {NoHex, HexOf(0), HexOf(KEY_HASH_LENGTH),
                       HexOf(KEY_HASH_LENGTH - 1), NotHex},
     poolRegistrationParams :
        {NoPoolParams,
         [given |-> TRUE, params |-> ValidPool],
         [given |-> TRUE, params |-> [ValidPool EXCEPT !.pledgeStr = <<NonDigit>>]]}]

CertificateLists ==
    {NotArray} \cup { ArrayOf(cs) : cs \in ListsUpTo(Certificates, MaxCerts) }

PoolCertificate(pool) ==
    [type |-> STAKE_POOL_REGISTRATION, path |-> NoPath, poolKeyHashHex |-> NoHex,
     poolRegistrationParams |-> [given |-> TRUE, params |-> pool]]

RegistrationCertificate ==
    [type |-> STAKE_REGISTRATION, path |-> PathOf(5), poolKeyHashHex |-> NoHex,
     poolRegistrationParams |-> NoPoolParams]

\* The certificates of the transactions validated.
TxCertificates ==
    { RegistrationCertificate,
      PoolCertificate(ValidPool),
      PoolCertificate([ValidPool EXCEPT !.pledgeStr = <<NonDigit>>]) }

ValidToken == [assetNameHex |-> HexOf(4), amountStr |-> <<7>>]

ValidBundle ==
    [given |-> TRUE, isArray |-> TRUE,
     items |-> <<Once([policyIdHex |-> HexOf(TOKEN_POLICY_LENGTH),
                       tokens |-> ArrayOf(<<Once(ValidToken)>>)])>>]

NoBundle == [given |-> FALSE, isArray |-> FALSE, items |-> <<>>]

TxInputs ==
    [txHashHex : {HexOf(TX_HASH_LENGTH)}, path : {NoPath, PathOf(5)}]
    \cup [txHashHex : {NotHex}, path : {NoPath}]

TxOutputs ==
    [serializable : {TRUE}, spendingPath : {NoPath, PathOf(5)}, tokenBundle : {NoBundle}]
    \cup [serializable : {FALSE}, spendingPath : {NoPath}, tokenBundle : {NoBundle}]
    \cup [serializable : {TRUE}, spendingPath : {NoPath}, tokenBundle : {ValidBundle}]

TxWithdrawals ==
    { [amountStr |-> <<9>>, path |-> PathOf(5)],
      [amountStr |-> <<NonDigit>>, path |-> PathOf(5)] }

NoStr      == [given |-> FALSE, str |-> <<>>]
StrOf(str) == [given |-> TRUE, str |-> str]

Transactions ==
    [inputs : {NotArray} \cup { ArrayOf(l) : l \in ListsUpTo(TxInputs, MaxItems) },
     outputs : {NotArray, ArrayOf(<<>>)} \cup { ArrayOf(<<o>>) : o \in TxOutputs },
     feeStr : { <<4, 2>>, <<NonDigit>> },
     ttlStr : { NoStr, StrOf(<<0>>) },
     certificates : {NotArray}
                    \cup { ArrayOf(l) : l \in ListsUpTo(TxCertificates, MaxCerts) },
     withdrawals : {NotArray}
                   \cup { ArrayOf(l) : l \in ListsUpTo(TxWithdrawals, MaxItems) },
     metadataHashHex : { NoHex, NotHex },
     validityIntervalStartStr : { NoStr, StrOf(<<0>>) }]

\* Margin strings: every string of at most MaxDigits of these digits (the empty
\* string and strings with leading zeros included), a string that is not a
\* number, and the numbers around the two maximum bounds.
MarginDigits == {0, 1, 9}

MarginStrs ==
    UNION { [1..n -> MarginDigits] : n \in 0..MaxDigits }
    \cup { <<NonDigit>>,
           <<9,9,9,9,9,9,9,9,9,9,9,9,9,9,9,9,9,9>>,
           POOL_MARGIN_DENOMINATOR_MAX_STR,
           <<1,0,0,0,0,0,0,0,0,0,0,0,0,0,0,0,0,0,1>>,
           MAX_UINT_64_STR,
           <<1,8,4,4,6,7,4,4,0,7,3,7,0,9,5,5,1,6,1,6>> }

Margins == [numeratorStr : MarginStrs, denominatorStr : MarginStrs]

NoParse == [fn |-> "none", arg |-> <<>>, out |-> Ok(<<>>)]

ParserIdle ==
    /\ mode = "parse"
    /\ parser.fn = "none"
    /\ UNCHANGED <<mode, lock, devVersion, calls, pc, call, first, attempt, sent,
                   acc, version, result, err, settled, prevVersion, last>>
    /\ UNCHANGED legacyVars

\* parseCertificates is applied to a caller's certificate list.
ParseCertificatesCall(certificates) ==
    /\ ParserIdle
    /\ parser' = [fn |-> "parseCertificates", arg |-> certificates,
                  out |-> parseCertificates(certificates)]

\* validateTransaction is applied to a caller's transaction.
ValidateTransactionCall(t) ==
    /\ ParserIdle
    /\ parser' = [fn |-> "validateTransaction", arg |-> t,
                  out |-> validateTransaction(t)]

\* parsePoolParams is applied to a caller's pool parameters.
ParsePoolParamsCall(params) ==
    /\ ParserIdle
    /\ parser' = [fn |-> "parsePoolParams", arg |-> params,
                  out |-> parsePoolParams(params)]

\* parsePoolOwnerParams is applied to a caller's pool owner.
ParsePoolOwnerParamsCall(params) ==
    /\ ParserIdle
    /\ parser' = [fn |-> "parsePoolOwnerParams", arg |-> params,
                  out |-> parsePoolOwnerParams(params)]

\* parseCertificate is applied to a caller's certificate.
ParseCertificateCall(cert) ==
    /\ ParserIdle
    /\ parser' = [fn |-> "parseCertificate", arg |-> cert,
                  out |-> parseCertificate(cert)]

\* parseMargin is applied to a caller's margin.
ParseMarginCall(params) ==
    /\ ParserIdle
    /\ parser' = [fn |-> "parseMargin", arg |-> params,
                  out |-> parseMargin(params)]

-----------------------------------------------------------------------------
(* Specification *)

Init ==
    /\ mode \in {"ts", "legacy"}
    /\ lock = 0
    /\ devVersion \in IF mode = "ts" THEN Versions ELSE {"supported"}
    /\ calls = 0
    /\ pc = [p \in Procs |-> "idle"]
    /\ call = [p \in Procs |-> NoCall]
    /\ first = [p \in Procs |-> FALSE]
    /\ attempt = [p \in Procs |-> 0]
    /\ sent = [p \in Procs |-> <<>>]
    /\ acc = [p \in Procs |-> <<>>]
    /\ version = [p \in Procs |-> "none"]
    /\ result = [p \in Procs |-> NoResult]
    /\ err = [p \in Procs |-> NoError]
    /\ settled = [p \in Procs |-> <<>>]
    /\ prevVersion = "none"
    /\ tx = [p \in Procs |-> <<>>]
    /\ off = [p \in Procs |-> 0]
    /\ chunks = [p \in Procs |-> <<>>]
    /\ response = [p \in Procs |-> <<>>]
    /\ parser = NoParse
    /\ last = NoLast

Next ==
    \/ \E p \in Procs : \E c \in Calls : PublicCall(p, c)
    \/ \E p \in Procs :
           /\ mode = "ts"
           /\ pc[p] = "awaiting"
           /\ \E out \in Outcomes(sent[p][Len(sent[p])], devVersion) : SendSettles(p, out)
    \/ \E p \in Procs : \E txHex \in TxHexes : setTransaction(p, txHex)
    \/ \E p \in Procs : \E out \in LegacyOutcomes : ChunkSettles(p, out)
    \/ \E p \in Procs : Settled(p)
    \/ DeviceChanges

Spec == Init /\ [][Next]_vars

\* interact on its own, applied to any interaction, every send returning a
\* response: a send that is awaited settles eventually, and the continuation
\* of a settled call, a microtask, runs.
InitInteract ==
    /\ Init
    /\ mode = "ts"

SendReturns(p) ==
    /\ mode = "ts"
    /\ pc[p] = "awaiting"
    /\ \E out \in Outcomes(sent[p][Len(sent[p])], devVersion) :
          /\ Ada_send(sent[p][Len(sent[p])], out).ok
          /\ SendSettles(p, out)

NextInteract ==
    \/ \E p \in Procs : \E c \in Interactions : InteractCall(p, c)
    \/ \E p \in Procs : SendReturns(p)
    \/ \E p \in Procs : Settled(p)

SpecInteract ==
    /\ InitInteract
    /\ [][NextInteract]_vars
    /\ \A p \in Procs : WF_vars(SendReturns(p)) /\ WF_vars(Settled(p))

\* getExtendedPublicKey called again and again with one path on one Ada
\* instance, against a device that answers a request as it answered it in the
\* call before.
RepeatedCalls == { c \in Calls : c.op = "getExtendedPublicKey" }

InitRepeat ==
    /\ Init
    /\ mode = "ts"

RepeatCall(p, c) ==
    /\ last.set => c = last.call
    /\ PublicCall(p, c)

\* The device is deterministic: the k-th send of this call, when it carries
\* the request the k-th send of the call before carried, settles as that one
\* did.
AnswersAsBefore(p, out) ==
    LET k == Len(settled[p]) + 1
    IN (last.set /\ k <= Len(last.settled) /\ sent[p][k] = last.sent[k])
       => out = last.settled[k].out

RepeatSendSettles(p) ==
    /\ mode = "ts"
    /\ pc[p] = "awaiting"
    /\ \E out \in Outcomes(sent[p][Len(sent[p])], devVersion) :
          /\ AnswersAsBefore(p, out)
          /\ SendSettles(p, out)

NextRepeat ==
    \/ \E p \in Procs : \E c \in RepeatedCalls : RepeatCall(p, c)
    \/ \E p \in Procs : RepeatSendSettles(p)
    \/ \E p \in Procs : SettledRecorded(p)

SpecRepeat == InitRepeat /\ [][NextRepeat]_vars

\* The parser on its own: one parser function applied to one argument.
InitParser ==
    /\ mode = "parse"
    /\ lock = 0
    /\ devVersion = "supported"
    /\ calls = 0
    /\ pc = [p \in Procs |-> "idle"]
    /\ call = [p \in Procs |-> NoCall]
    /\ first = [p \in Procs |-> FALSE]
    /\ attempt = [p \in Procs |-> 0]
    /\ sent = [p \in Procs |-> <<>>]
    /\ acc = [p \in Procs |-> <<>>]
    /\ version = [p \in Procs |-> "none"]
    /\ result = [p \in Procs |-> NoResult]
    /\ err = [p \in Procs |-> NoError]
    /\ settled = [p \in Procs |-> <<>>]
    /\ prevVersion = "none"
    /\ tx = [p \in Procs |-> <<>>]
    /\ off = [p \in Procs |-> 0]
    /\ chunks = [p \in Procs |-> <<>>]
    /\ response = [p \in Procs |-> <<>>]
    /\ parser = NoParse
    /\ last = NoLast

NextParser ==
    \/ /\ parser.fn = "none"
       /\ \E certificates \in CertificateLists : ParseCertificatesCall(certificates)
    \/ /\ parser.fn = "none"
       /\ \E t \in Transactions : ValidateTransactionCall(t)
    \/ /\ parser.fn = "none"
       /\ \E params \in Margins : ParseMarginCall(params)
    \/ /\ parser.fn = "none"
       /\ \E params \in PoolsOfAnySize : ParsePoolParamsCall(params)
    \/ /\ parser.fn = "none"
       /\ \E params \in Owners : ParsePoolOwnerParamsCall(params)
    \/ /\ parser.fn = "none"
       /\ \E cert \in CertificatesOfAnyShape : ParseCertificateCall(cert)

SpecParser == InitParser /\ [][NextParser]_vars

-----------------------------------------------------------------------------
(* Properties *)

\* Number of times request x was handed to transport.send.
Count(seq, x) == Cardinality({i \in 1..Len(seq) : seq[i] = x})

StillInCallFailure == TransportStatusError(ERR_STILL_IN_CALL)

\* The request of a call fails the validation of its public method.
InvalidInput(c) ==
    \/ c.op \in KeyOps
       /\ (~c.isArray \/ \E i \in 1..Len(c.paths) : c.paths[i] > MAX_PATH_LENGTH)
    \/ c.op \in ParsedOps /\ ~c.valid

\* C1: the request/response exchanges of two concurrent calls on one Ada
\* instance never interleave: at no time do two calls have a request
\* outstanding on the transport.
C1_NoInterleaving ==
    mode = "ts" => Cardinality({p \in Procs : pc[p] = "awaiting"}) <= 1

\* C2: when the first transport.send of an operation fails with still-in-call,
\* the same request is sent a second time and nothing is reported to the
\* caller; when that second send succeeds, the request has been sent exactly
\* twice, the interaction is resumed with the second response, and a failure
\* of the call can only come from what follows the first exchange.
C2_RetryOnce ==
    \A p \in Procs :
        (mode = "ts" /\ Len(settled[p]) >= 1
                     /\ settled[p][1].out.error = StillInCallFailure)
        => /\ Len(sent[p]) >= 2
           /\ sent[p][2] = sent[p][1]
           /\ Len(settled[p]) = 1 => (pc[p] = "awaiting" /\ err[p] = NoError)
           /\ (Len(settled[p]) >= 2 /\ settled[p][2].out.ok
                                    /\ settled[p][2].thrown = NoError)
              => /\ Count(sent[p], sent[p][1]) = 2
                 /\ Len(acc[p]) >= 1
                 /\ acc[p][1] = settled[p][2].out.res
                 /\ pc[p] = "failed"
                    => \/ err[p] = DeviceVersionUnsupported
                       \/ /\ Len(settled[p]) >= 3
                          /\ err[p] = settled[p][Len(settled[p])].thrown

C2_Witness ==
    \E p \in Procs :
        /\ mode = "ts" /\ pc[p] = "done"
        /\ Len(settled[p]) >= 2
        /\ settled[p][1].out.error = StillInCallFailure
        /\ settled[p][2].out.ok

\* C3: still-in-call on an exchange other than the first: that request is
\* sent exactly once, the operation fails with that device status error and
\* nothing is sent after it.
C3_NoRetryAfterFirst ==
    \A p \in Procs : \A j \in 1..Len(settled[p]) :
        (mode = "ts" /\ settled[p][j].out.error = StillInCallFailure
                     /\ sent[p][j].idx >= 1)
        => /\ Count(sent[p], sent[p][j]) = 1
           /\ Len(sent[p]) = j
           /\ pc[p] = "failed"
           /\ err[p] = DeviceStatusError(ERR_STILL_IN_CALL)

C3_Witness ==
    \E p \in Procs : \E j \in 1..Len(settled[p]) :
        /\ mode = "ts"
        /\ settled[p][j].out.error = StillInCallFailure
        /\ sent[p][j].idx >= 1
        /\ pc[p] = "failed"

\* C4: no request is sent more than twice; still-in-call on the first attempt
\* and on the retry surfaces the second error; any other failure of the first
\* attempt is surfaced after a single send.
C4_RetryBounded ==
    \A p \in Procs :
        mode = "ts"
        => /\ \A i \in 1..Len(sent[p]) : Count(sent[p], sent[p][i]) <= 2
           /\ (Len(settled[p]) >= 2
                /\ settled[p][1].out.error = StillInCallFailure
                /\ settled[p][2].out.error = StillInCallFailure)
              => /\ Len(sent[p]) = 2
                 /\ pc[p] = "failed"
                 /\ err[p] = settled[p][2].thrown
                 /\ err[p] = DeviceStatusError(ERR_STILL_IN_CALL)
           /\ (Len(settled[p]) >= 1
                /\ ~settled[p][1].out.ok
                /\ settled[p][1].out.error # StillInCallFailure)
              => /\ Len(sent[p]) = 1
                 /\ pc[p] = "failed"
                 /\ err[p] = IF settled[p][1].out.error.numeric
                             THEN DeviceStatusError(settled[p][1].out.error.statusCode)
                             ELSE settled[p][1].out.error

C4_Witness ==
    \E p \in Procs :
        /\ mode = "ts" /\ pc[p] = "failed"
        /\ Len(settled[p]) = 2
        /\ settled[p][1].out.error = StillInCallFailure
        /\ settled[p][2].out.error = StillInCallFailure

\* sent without the duplicate a retry of the first request leaves.
Dedup(seq) ==
    IF Len(seq) >= 2 /\ seq[1] = seq[2] THEN Tail(seq) ELSE seq

\* C5: within one operation the requests go out in the order the interaction
\* yields them, at most one is outstanding, request k+1 goes out only after
\* the interaction has been resumed with the response to request k, and the
\* interaction is resumed once per request, each time with the response to
\* its latest request.
C5_ProgramOrder ==
    \A p \in Procs :
        mode = "ts"
        => LET d == Dedup(sent[p])
           IN /\ \A i \in 1..Len(d) : d[i].idx = i - 1
              /\ Len(sent[p]) - Len(settled[p]) \in {0, 1}
              /\ (Len(sent[p]) - Len(settled[p]) = 1) <=> (pc[p] = "awaiting")
              /\ Len(acc[p]) \in {Len(d) - 1, Len(d)}
              /\ pc[p] = "awaiting" => Len(acc[p]) = Len(d) - 1
              /\ \A i \in 1..Len(acc[p]) : acc[p][i].re = i - 1

C5_Witness ==
    \E p \in Procs :
        /\ mode = "ts" /\ pc[p] = "done"
        /\ Len(acc[p]) >= 3
        /\ Len(sent[p]) >= 4

\* C6: a call whose input fails validation fails with the validation error
\* and transport.send has not been called for it, not even for the version.
C6_ValidationBeforeIO ==
    \A p \in Procs :
        (mode = "ts" /\ pc[p] # "idle" /\ InvalidInput(call[p]))
        => /\ pc[p] = "failed"
           /\ err[p].cls = "InvalidData"
           /\ sent[p] = <<>>
           /\ settled[p] = <<>>

C6_Witness ==
    \E p \in Procs :
        /\ mode = "ts" /\ pc[p] = "failed"
        /\ InvalidInput(call[p])
        /\ call[p].op = "signTransaction"

\* C7: the first request of every operation, on every call, is the
\* get-version request, and the version an operation works with is the one
\* the device answered to that request of this same call.
C7_VersionFetchedFresh ==
    \A p \in Procs :
        (mode = "ts" /\ pc[p] # "idle" /\ ~InvalidInput(call[p]))
        => /\ sent[p] # <<>>
           /\ sent[p][1].ins = "GET_VERSION"
           /\ Len(acc[p]) = 0 => version[p] = "none"
           /\ Len(acc[p]) >= 1 => (acc[p][1].re = 0 /\ version[p] = acc[p][1].version)
           /\ (\E i \in 1..Len(sent[p]) : sent[p][i].idx >= 1) => Len(acc[p]) >= 1

C7_Witness ==
    \E p \in Procs :
        /\ mode = "ts" /\ calls >= 2
        /\ prevVersion # "none"
        /\ version[p] \notin {"none", prevVersion}
        /\ sent[p][1].ins = "GET_VERSION"

\* The call asks for the extended public key of one path of two indexes.
TwoElementPathCall(c) ==
    c.op \in KeyOps /\ c.isArray /\ c.paths = <<MIN_DEVICE_PATH_LENGTH - 1>>

KeyRequestSent(p) ==
    \E i \in 1..Len(sent[p]) : sent[p][i].ins = "getExtendedPublicKeys"

ExchangeFailed(p, j) ==
    /\ settled[p][j].thrown # NoError
    /\ ~(mode = "ts" /\ j = 1 /\ settled[p][1].out.error = StillInCallFailure)

\* C9: when an exchange of a multi-exchange operation fails, the operation
\* ends with that error, returns nothing of what it gathered, and sends
\* nothing after the failing request or chunk.
C9_FailureEndsOperation ==
    \A p \in Procs : \A j \in 1..Len(settled[p]) :
        ExchangeFailed(p, j)
        => /\ j = Len(settled[p])
           /\ pc[p] = "failed"
           /\ err[p] = settled[p][j].thrown
           /\ ~result[p].set
           /\ IF mode = "ts" THEN Len(sent[p]) = j ELSE Len(chunks[p]) = j

C9_Witness ==
    \E p \in Procs :
        /\ mode = "ts" /\ pc[p] = "failed"
        /\ Len(settled[p]) >= 3
        /\ ExchangeFailed(p, Len(settled[p]))
        /\ Len(acc[p]) >= 2

C9_WitnessLegacy ==
    \E p \in Procs :
        /\ mode = "legacy" /\ pc[p] = "failed"
        /\ Len(settled[p]) >= 2
        /\ ExchangeFailed(p, Len(settled[p]))
        /\ response[p] # <<>>

\* C10: _send turns every failure of transport.send that carries a numeric
\* status code into the DeviceStatusError of that code and rethrows every
\* other failure as it is; a call that ends on such a failure rejects with it.
C10_ErrorTranslation ==
    \A p \in Procs : \A j \in 1..Len(settled[p]) :
        (mode = "ts" /\ ~settled[p][j].out.ok)
        => LET e == settled[p][j].out.error
               t == settled[p][j].thrown
           IN /\ e.numeric
                 => t = [cls |-> "DeviceStatusError", statusCode |-> e.statusCode,
                         numeric |-> TRUE]
              /\ ~e.numeric => t = e
              /\ (j = Len(settled[p]) /\ pc[p] = "failed") => err[p] = t

C10_Witness ==
    \E p \in Procs :
        /\ mode = "ts" /\ pc[p] = "failed"
        /\ settled[p] # <<>>
        /\ settled[p][Len(settled[p])].out.error = TransportErrorStringCode
        /\ err[p] = TransportErrorStringCode

\* C11: a response to a request that declares its expected length is accepted
\* only with that length; a mismatch makes _send throw the assertion error,
\* which is not retried even on the first exchange: the call fails with it and
\* that request is the last one sent.  A request that declares no length is
\* never refused for its length.
C11_LengthAssertionFatal ==
    \A p \in Procs : \A j \in 1..Len(settled[p]) :
        (mode = "ts" /\ settled[p][j].out.ok)
        => LET req == sent[p][j]
               res == settled[p][j].out.res
               t   == settled[p][j].thrown
           IN /\ (req.declares /\ ~res.lenOk)
                 => /\ t = AssertionError
                    /\ j = Len(settled[p])
                    /\ Len(sent[p]) = j
                    /\ pc[p] = "failed"
                    /\ err[p] = AssertionError
                    /\ ~result[p].set
              /\ (req.declares /\ t = NoError) => res.lenOk
              /\ ~req.declares => t = NoError

C11_Witness ==
    \E p \in Procs :
        /\ mode = "ts" /\ pc[p] = "failed"
        /\ Len(settled[p]) = 1 /\ Len(sent[p]) = 1
        /\ settled[p][1].out.ok
        /\ ~settled[p][1].out.res.lenOk
        /\ err[p] = AssertionError

\* The payloads of a sequence of frames, one after the other.
RECURSIVE Flatten(_)
Flatten(frames) ==
    IF frames = <<>> THEN <<>>
    ELSE frames[1].data \o Flatten(Tail(frames))

\* buf.toString("hex"): two digits per byte.
HexFromBuffer(buf) ==
    [j \in 1..(2 * Len(buf)) |->
        IF j % 2 = 1 THEN buf[(j + 1) \div 2] \div 16 ELSE buf[j \div 2] % 16]

\* Number of frames a payload of len bytes needs.
FramesNeeded(len) == (len + chunkSize - 1) \div chunkSize

Min(a, b) == IF a < b THEN a ELSE b

\* C12: the payloads of the chunks sent so far, in the order sent, are the
\* leading bytes of the transaction; once setTransaction has returned they
\* are the whole transaction, byte for byte, and for a transaction given as a
\* whole number of bytes their hex encoding is the argument.
C12_ChunkRoundTrip ==
    \A p \in Procs :
        mode = "legacy"
        => LET rawTx == BufferFromHex(tx[p])
               got   == Flatten(chunks[p])
           IN /\ got = [j \in 1..Min(Len(chunks[p]) * chunkSize, Len(rawTx)) |-> rawTx[j]]
              /\ pc[p] = "done" => got = rawTx
              /\ (pc[p] = "done" /\ Len(tx[p]) % 2 = 0) => HexFromBuffer(got) = tx[p]

C12_Witness ==
    \E p \in Procs :
        /\ mode = "legacy" /\ pc[p] = "done"
        /\ Len(chunks[p]) >= 2
        /\ Len(BufferFromHex(tx[p])) % chunkSize # 0
        /\ Flatten(chunks[p]) = BufferFromHex(tx[p])

\* C13: a setTransaction that has returned has sent ceil(L / C) chunks for a
\* transaction of L bytes, and one chunk when L = 0.
C13_ChunkCount ==
    \A p \in Procs :
        (mode = "legacy" /\ pc[p] = "done")
        => LET L == Len(BufferFromHex(tx[p]))
           IN Len(chunks[p]) = IF L = 0 THEN 1 ELSE FramesNeeded(L)

\* C14: in a complete chunk stream the first chunk is marked FIRST, the
\* final one LAST, every chunk in between NEXT, and the only chunk of a
\* one-chunk stream is the single variant: FIRST with the SINGLE marker.
C14_PositionMarkers ==
    \A p \in Procs :
        (mode = "legacy" /\ pc[p] = "done" /\ chunks[p] # <<>>)
        => LET n == Len(chunks[p])
           IN /\ chunks[p][1].p1 = P1_FIRST
              /\ n >= 2 => chunks[p][n].p1 = P1_LAST
              /\ \A k \in 2..(n - 1) : chunks[p][k].p1 = P1_NEXT
              /\ n = 1 => chunks[p][1].p2 = P2_SINGLE_TX

\* C15: every chunk carries SINGLE exactly when the transaction goes out in
\* one frame and MULTI exactly when it goes out in more than one.
C15_FrameCountMarker ==
    \A p \in Procs : \A k \in 1..Len(chunks[p]) :
        mode = "legacy"
        => LET L == Len(BufferFromHex(tx[p]))
           IN /\ (chunks[p][k].p2 = P2_SINGLE_TX) <=> (FramesNeeded(L) = 1)
              /\ (chunks[p][k].p2 = P2_MULTI_TX) <=> (FramesNeeded(L) > 1)

\* C16: the k-th chunk of a call is the slice of the transaction at offset
\* (k - 1) * C, so offsets strictly increase; a chunk is outstanding only
\* while the call awaits, it is the latest one, and every earlier chunk has
\* been answered before it went out.
C16_SequentialChunks ==
    \A p \in Procs :
        mode = "legacy"
        => LET rawTx == BufferFromHex(tx[p])
               n     == Len(chunks[p])
           IN /\ \A k \in 1..n :
                    /\ (k - 1) * chunkSize < Len(rawTx)
                    /\ chunks[p][k].data
                         = [j \in 1..Min(chunkSize, Len(rawTx) - (k - 1) * chunkSize)
                              |-> rawTx[(k - 1) * chunkSize + j]]
              /\ n - Len(settled[p]) \in {0, 1}
              /\ (n - Len(settled[p]) = 1) <=> (pc[p] = "awaiting")
              /\ pc[p] = "awaiting" => off[p] = (n - 1) * chunkSize

C16_Witness ==
    \E p \in Procs :
        /\ mode = "legacy" /\ pc[p] = "awaiting"
        /\ Len(chunks[p]) = 3 /\ Len(settled[p]) = 2
        /\ off[p] = 2 * chunkSize

\* The call of p sends a transaction of more than one chunk.
MultiChunk(p) == Len(BufferFromHex(tx[p])) > chunkSize

\* C17: two multi-chunk setTransaction calls on one instance never have
\* their streams interleaved: while one call still has chunks to send or to
\* be answered, no chunk of another call is on the transport.
C17_StreamsNotInterleaved ==
    \A p, q \in Procs :
        (mode = "legacy" /\ p # q /\ MultiChunk(p) /\ MultiChunk(q))
        => ~(pc[p] = "awaiting" /\ pc[q] = "awaiting")

\* The list holds a stake-pool-registration certificate.
HasPoolRegistration(cs) ==
    \E i \in 1..Len(cs) : cs[i].type = STAKE_POOL_REGISTRATION

IndividuallyValid(cert) == parseCertificate(cert).error = "none"

\* C18 as stated: every list with a stake-pool-registration certificate and
\* at least one other certificate is rejected with
\* CERTIFICATES_COMBINATION_FORBIDDEN, and a list of exactly one individually
\* valid stake-pool-registration certificate is accepted.
C18_CombinationAlwaysForbidden ==
    (parser.fn = "parseCertificates" /\ parser.arg.isArray)
    => LET cs == parser.arg.items
       IN /\ (HasPoolRegistration(cs) /\ Len(cs) >= 2)
             => parser.out.error = "CERTIFICATES_COMBINATION_FORBIDDEN"
          /\ (Len(cs) = 1 /\ HasPoolRegistration(cs) /\ IndividuallyValid(cs[1]))
             => parser.out.error = "none"

\* C18 as amended: every list with a stake-pool-registration certificate and
\* at least one other certificate is rejected; the reason is
\* CERTIFICATES_COMBINATION_FORBIDDEN when every certificate of the list is
\* individually valid, and otherwise the reason of the first certificate of
\* the list that is not.  A list of exactly one individually valid
\* stake-pool-registration certificate is accepted and parsed to one
\* certificate of that type.
C18_CombinationForbidden ==
    (parser.fn = "parseCertificates" /\ parser.arg.isArray)
    => LET cs == parser.arg.items
       IN /\ (HasPoolRegistration(cs) /\ Len(cs) >= 2)
             => /\ parser.out.error # "none"
                /\ (\A i \in 1..Len(cs) : IndividuallyValid(cs[i]))
                   => parser.out.error = "CERTIFICATES_COMBINATION_FORBIDDEN"
                /\ \A i \in 1..Len(cs) :
                      (~IndividuallyValid(cs[i])
                        /\ \A k \in 1..(i - 1) : IndividuallyValid(cs[k]))
                      => parser.out.error = parseCertificate(cs[i]).error
          /\ (Len(cs) = 1 /\ HasPoolRegistration(cs) /\ IndividuallyValid(cs[1]))
             => /\ parser.out.error = "none"
                /\ Len(parser.out.value) = 1
                /\ parser.out.value[1].type = STAKE_POOL_REGISTRATION

C18_Witness ==
    /\ parser.fn = "parseCertificates" /\ parser.arg.isArray
    /\ Len(parser.arg.items) = 2
    /\ parser.arg.items[1].type = STAKE_DELEGATION
    /\ parser.arg.items[2].type = STAKE_POOL_REGISTRATION
    /\ parser.out.error = "CERTIFICATES_COMBINATION_FORBIDDEN"

\* C19: a transaction validateTransaction accepts that has a
\* stake-pool-registration certificate has exactly one certificate, no input
\* with a path, no output with a spending path and no withdrawal.
C19_PoolRegistrationAlone ==
    (parser.fn = "validateTransaction" /\ parser.out.error = "none"
      /\ HasPoolRegistration(parser.arg.certificates.items))
    => LET t == parser.arg
       IN /\ Len(t.certificates.items) = 1
          /\ \A i \in 1..Len(t.inputs.items) : ~t.inputs.items[i].path.given
          /\ \A i \in 1..Len(t.outputs.items) : ~t.outputs.items[i].spendingPath.given
          /\ t.withdrawals.items = <<>>

C19_Witness ==
    /\ parser.fn = "validateTransaction" /\ parser.out.error = "none"
    /\ HasPoolRegistration(parser.arg.certificates.items)
    /\ parser.arg.inputs.items # <<>>
    /\ parser.arg.outputs.items # <<>>

\* The transaction has one certificate, a stake-pool registration, and at
\* least one withdrawal.
PoolRegistrationWithWithdrawal(t) ==
    /\ t.certificates.isArray
    /\ Len(t.certificates.items) = 1
    /\ HasPoolRegistration(t.certificates.items)
    /\ t.withdrawals.isArray
    /\ Len(t.withdrawals.items) >= 1

\* The transaction as it would be without what validateTransaction looks at
\* from the withdrawals on.
WithoutWithdrawals(t) ==
    [t EXCEPT !.withdrawals = ArrayOf(<<>>), !.metadataHashHex = NoHex,
              !.validityIntervalStartStr = NoStr]

\* C20: a transaction with one stake-pool-registration certificate and at
\* least one withdrawal is never accepted, and when it would be accepted
\* without its withdrawals, the reason is WITHDRAWALS_FORBIDDEN, whatever the
\* withdrawals themselves and the fields checked after them are.
C20_WithdrawalsForbidden ==
    (parser.fn = "validateTransaction" /\ PoolRegistrationWithWithdrawal(parser.arg))
    => /\ parser.out.error # "none"
       /\ validateTransaction(WithoutWithdrawals(parser.arg)).error = "none"
          => parser.out.error = "WITHDRAWALS_FORBIDDEN"

C20_Witness ==
    /\ parser.fn = "validateTransaction"
    /\ PoolRegistrationWithWithdrawal(parser.arg)
    /\ parser.arg.inputs.items # <<>>
    /\ parser.arg.metadataHashHex = NotHex
    /\ parser.out.error = "WITHDRAWALS_FORBIDDEN"

-----------------------------------------------------------------------------
(* Margins *)

\* A string of decimal digits, and one written without leading zeros.
IsDecimal(str) == Len(str) > 0 /\ \A i \in 1..Len(str) : str[i] \in 0..9

IsPlainDecimal(str) == IsDecimal(str) /\ (Len(str) = 1 \/ str[1] # 0)

\* a <= b for the numbers two decimal strings denote, by subtracting a from b
\* digit by digit from the right: a <= b iff no borrow is left at the end.
NumLeq(a, b) ==
    LET n == IF Len(a) > Len(b) THEN Len(a) ELSE Len(b)
        Digit(s, k) == IF k <= n - Len(s) THEN 0 ELSE s[k - (n - Len(s))]
        RECURSIVE Borrow(_)
        Borrow(k) == IF k > n THEN 0
                     ELSE IF Digit(b, k) - Digit(a, k) - Borrow(k + 1) < 0
                     THEN 1 ELSE 0
    IN Borrow(1) = 0

MarginParsed == parser.fn = "parseMargin"

\* C21: parseMargin accepts every pair of decimal strings (numerator,
\* denominator) with 0 <= numerator <= denominator <= the denominator's
\* maximum, returning the two strings as they were given, and rejects every
\* pair of decimal strings with numerator > denominator.
C21_MarginOrdered ==
    MarginParsed =>
        LET num == parser.arg.numeratorStr
            den == parser.arg.denominatorStr
        IN /\ ( /\ IsPlainDecimal(num) /\ IsPlainDecimal(den)
                /\ NumLeq(num, den)
                /\ NumLeq(den, POOL_MARGIN_DENOMINATOR_MAX_STR) )
              => /\ parser.out.error = "none"
                 /\ parser.out.value.numeratorStr = num
                 /\ parser.out.value.denominatorStr = den
           /\ (IsDecimal(num) /\ IsDecimal(den) /\ ~NumLeq(num, den))
              => parser.out.error # "none"

\* A margin of two different two-digit numbers is accepted, and the swapped
\* pair is among the rejected ones.
C21_Witness ==
    /\ MarginParsed
    /\ parser.arg.numeratorStr = <<1, 9>>
    /\ parser.arg.denominatorStr = <<9, 0>>
    /\ parser.out.error = "none"

C21_WitnessRejected ==
    /\ MarginParsed
    /\ parser.arg.numeratorStr = <<9, 0>>
    /\ parser.arg.denominatorStr = <<1, 9>>
    /\ parser.out.error = "CERTIFICATE_POOL_INVALID_MARGIN"

-----------------------------------------------------------------------------
(* Pool parameters *)

PoolParsed == parser.fn = "parsePoolParams"

\* The number of elements of a list given as runs that satisfy a condition,
\* keep[k] telling whether the element of run k does.
CountRuns(runs, keep) ==
    LET RECURSIVE Sum(_)
        Sum(k) == IF k = 0 THEN 0
                  ELSE (IF keep[k] THEN runs[k].times ELSE 0) + Sum(k - 1)
    IN Sum(Len(runs))

\* The owners the caller gave a staking path for, and the owners of a parsed
\* pool that are of the path type.
GivenPathOwners(pool) ==
    CountRuns(pool.poolOwners,
              [k \in 1..Len(pool.poolOwners) |-> pool.poolOwners[k].item.stakingPath.given])

ParsedPathOwners(owners) ==
    CountRuns(owners, [k \in 1..Len(owners) |-> owners[k].item.type = PoolOwnerType_PATH])

\* The pool passes every check made before the one on the path owners: it is
\* accepted once its owners are replaced by a single path owner, each of its
\* owners is valid, and they are at most the maximum.
PassesEarlierPoolChecks(pool) ==
    /\ parsePoolParams([pool EXCEPT !.poolOwners = <<Once(PathOwner)>>]).error = "none"
    /\ \A k \in 1..Len(pool.poolOwners) :
          parsePoolOwnerParams(pool.poolOwners[k].item).error = "none"
    /\ CountRuns(pool.poolOwners, [k \in 1..Len(pool.poolOwners) |-> TRUE])
          <= POOL_REGISTRATION_OWNERS_MAX

\* C22: every value parsePoolParams returns has at most 1000 owners, at most
\* 1000 relays and exactly one path-typed owner; a pool with zero or with two
\* or more path owners is rejected, with CERTIFICATE_POOL_OWNERS_SINGLE_PATH
\* when it passes the checks made before that one.
C22_PoolOwnersBounded ==
    PoolParsed =>
        /\ parser.out.error = "none" =>
              /\ CountRuns(parser.out.value.owners,
                           [k \in 1..Len(parser.out.value.owners) |-> TRUE])
                    <= POOL_REGISTRATION_OWNERS_MAX
              /\ CountRuns(parser.out.value.relays,
                           [k \in 1..Len(parser.out.value.relays) |-> TRUE])
                    <= POOL_REGISTRATION_RELAYS_MAX
              /\ ParsedPathOwners(parser.out.value.owners) = 1
        /\ GivenPathOwners(parser.arg) # 1 =>
              /\ parser.out.error # "none"
              /\ PassesEarlierPoolChecks(parser.arg)
                    => parser.out.error = "CERTIFICATE_POOL_OWNERS_SINGLE_PATH"

\* A pool of exactly 1000 owners, one of them a path owner, and 1000 relays is
\* returned.
C22_Witness ==
    /\ PoolParsed
    /\ parser.out.error = "none"
    /\ CountRuns(parser.out.value.owners,
                 [k \in 1..Len(parser.out.value.owners) |-> TRUE])
          = POOL_REGISTRATION_OWNERS_MAX
    /\ CountRuns(parser.out.value.relays,
                 [k \in 1..Len(parser.out.value.relays) |-> TRUE])
          = POOL_REGISTRATION_RELAYS_MAX

\* A pool with two path owners, and one with none, are rejected for it.
C22_WitnessTwoPaths ==
    /\ PoolParsed
    /\ GivenPathOwners(parser.arg) = 2
    /\ parser.out.error = "CERTIFICATE_POOL_OWNERS_SINGLE_PATH"

C22_WitnessNoPath ==
    /\ PoolParsed
    /\ GivenPathOwners(parser.arg) = 0
    /\ parser.out.error = "CERTIFICATE_POOL_OWNERS_SINGLE_PATH"

-----------------------------------------------------------------------------
(* Pool owners *)

OwnerParsed == parser.fn = "parsePoolOwnerParams"

\* C29: parsePoolOwnerParams goes by the staking path whenever one is present,
\* also when a key hash is given as well: the outcome is a path-typed owner
\* that carries the path and nothing of the key hash, whatever the key hash is
\* (or the path's rejection, CERTIFICATE_POOL_OWNER_INVALID_PATH, when the
\* path is not a valid one).  When only a key hash is present the outcome is a
\* key-hash-typed owner with that hash, which is 28 bytes of hex (or the
\* hash's rejection when it is not).  When neither is present (an empty string
\* counts as none) it fails with CERTIFICATE_POOL_OWNER_INCOMPLETE.
C29_OwnerByPathFirst ==
    OwnerParsed =>
        LET path == parser.arg.stakingPath
            hash == parser.arg.stakingKeyHashHex
            out  == parser.out
        IN /\ path.given =>
                 IF path.len <= MAX_PATH_LENGTH
                 THEN /\ out.error = "none"
                      /\ DOMAIN out.value = {"type", "path"}
                      /\ out.value.type = PoolOwnerType_PATH
                      /\ out.value.path = path.len
                 ELSE out.error = "CERTIFICATE_POOL_OWNER_INVALID_PATH"
           /\ (~path.given /\ hash.kind # "absent" /\ hash # HexOf(0)) =>
                 IF hash = HexOf(KEY_HASH_LENGTH)
                 THEN /\ out.error = "none"
                      /\ DOMAIN out.value = {"type", "hashHex"}
                      /\ out.value.type = PoolOwnerType_KEY_HASH
                      /\ out.value.hashHex = hash
                 ELSE out.error = "CERTIFICATE_POOL_OWNER_INVALID_KEY_HASH"
           /\ (~path.given /\ (hash.kind = "absent" \/ hash = HexOf(0))) =>
                 out.error = "CERTIFICATE_POOL_OWNER_INCOMPLETE"

\* An owner given with a path and with a key hash that is not a valid one is
\* returned as a path owner.
C29_Witness ==
    /\ OwnerParsed
    /\ parser.arg.stakingPath = PathOf(5)
    /\ parser.arg.stakingKeyHashHex = HexOf(KEY_HASH_LENGTH - 1)
    /\ parser.out.error = "none"
    /\ parser.out.value.type = PoolOwnerType_PATH

C29_WitnessKeyHash ==
    /\ OwnerParsed
    /\ ~parser.arg.stakingPath.given
    /\ parser.out.error = "none"
    /\ parser.out.value.type = PoolOwnerType_KEY_HASH

C29_WitnessIncomplete ==
    /\ OwnerParsed
    /\ parser.out.error = "CERTIFICATE_POOL_OWNER_INCOMPLETE"

-----------------------------------------------------------------------------
(* Certificates *)

CertificateParsed == parser.fn = "parseCertificate"

\* The fields of each variant of a parsed certificate.
VariantFields(type) ==
    CASE type \in {STAKE_REGISTRATION, STAKE_DEREGISTRATION} -> {"type", "path"}
      [] type = STAKE_DELEGATION -> {"type", "path", "poolKeyHashHex"}
      [] type = STAKE_POOL_REGISTRATION -> {"type", "pool"}
      [] OTHER -> {}

\* C30: every certificate parseCertificate returns carries only the fields of
\* its variant.  A stake registration or deregistration certificate supplied
\* with a pool key hash is rejected, with CERTIFICATE_SUPERFLUOUS_POOL_KEY_HASH
\* when its path passes the check made before; a stake delegation certificate
\* is accepted only with a valid path and a 28-byte pool key hash; a
\* certificate of unknown type is rejected with CERTIFICATE_INVALID.
C30_VariantFieldsOnly ==
    CertificateParsed =>
        LET cert == parser.arg
            out  == parser.out
            validPath == cert.path.given /\ cert.path.len <= MAX_PATH_LENGTH
        IN /\ out.error = "none" =>
                 /\ out.value.type = cert.type
                 /\ DOMAIN out.value = VariantFields(cert.type)
           /\ ( /\ cert.type \in {STAKE_REGISTRATION, STAKE_DEREGISTRATION}
                /\ cert.poolKeyHashHex.kind # "absent" ) =>
                 /\ out.error # "none"
                 /\ validPath => out.error = "CERTIFICATE_SUPERFLUOUS_POOL_KEY_HASH"
           /\ cert.type = STAKE_DELEGATION =>
                 (out.error = "none"
                    <=> (validPath /\ cert.poolKeyHashHex = HexOf(KEY_HASH_LENGTH)))
           /\ cert.type \notin {STAKE_REGISTRATION, STAKE_DEREGISTRATION,
                                STAKE_DELEGATION, STAKE_POOL_REGISTRATION} =>
                 out.error = "CERTIFICATE_INVALID"

\* A stake registration with a valid path and a pool key hash is rejected for
\* the key hash.
C30_Witness ==
    /\ CertificateParsed
    /\ parser.arg.type = STAKE_REGISTRATION
    /\ parser.arg.path = PathOf(5)
    /\ parser.arg.poolKeyHashHex = HexOf(KEY_HASH_LENGTH)
    /\ parser.out.error = "CERTIFICATE_SUPERFLUOUS_POOL_KEY_HASH"

\* A stake registration given with pool parameters is returned without them.
C30_WitnessReturned ==
    /\ CertificateParsed
    /\ parser.arg.type = STAKE_REGISTRATION
    /\ parser.arg.poolRegistrationParams.given
    /\ parser.out.error = "none"
    /\ DOMAIN parser.out.value = {"type", "path"}

C30_WitnessDelegation ==
    /\ CertificateParsed
    /\ parser.arg.type = STAKE_DELEGATION
    /\ parser.out.error = "none"

C30_WitnessUnknown ==
    /\ CertificateParsed
    /\ parser.arg.type = UnknownCertificateType
    /\ parser.out.error = "CERTIFICATE_INVALID"

-----------------------------------------------------------------------------
(* The order of the checks of validateTransaction *)

TransactionValidated == parser.fn = "validateTransaction"

\* What each group of checks finds on its own, "none" when the transaction
\* passes the group: inputs, outputs, fee, ttl, certificates, withdrawals,
\* metadata hash, validity interval start.
GroupReasons(t) ==
    LET asOwner == HasPoolRegistration(t.certificates.items)
        First(rs) == IF \A i \in 1..Len(rs) : rs[i] = "none" THEN "none"
                     ELSE rs[CHOOSE i \in 1..Len(rs) :
                                /\ rs[i] # "none"
                                /\ \A k \in 1..(i - 1) : rs[k] = "none"]
    IN << IF ~t.inputs.isArray THEN "INPUTS_NOT_ARRAY"
          ELSE First([i \in 1..Len(t.inputs.items) |->
                         ValidateInput(t.inputs.items[i], asOwner)]),
          IF ~t.outputs.isArray THEN "OUTPUTS_NOT_ARRAY"
          ELSE First([i \in 1..Len(t.outputs.items) |->
                         ValidateOutput(t.outputs.items[i], asOwner)]),
          IF checkIsValidAdaAmount(t.feeStr) THEN "none" ELSE "FEE_INVALID",
          IF t.ttlStr.given /\ ~checkIsPositiveUint64Str(t.ttlStr.str)
          THEN "TTL_INVALID" ELSE "none",
          IF ~t.certificates.isArray THEN "CERTIFICATES_NOT_ARRAY"
          ELSE IF \E i \in 1..Len(t.certificates.items) :
                     ~IndividuallyValid(t.certificates.items[i])
          THEN First([i \in 1..Len(t.certificates.items) |->
                         parseCertificate(t.certificates.items[i]).error])
          ELSE IF asOwner /\ Len(t.certificates.items) > 1
          THEN "CERTIFICATES_COMBINATION_FORBIDDEN" ELSE "none",
          IF ~t.withdrawals.isArray THEN "WITHDRAWALS_NOT_ARRAY"
          ELSE IF asOwner /\ t.withdrawals.items # <<>> THEN "WITHDRAWALS_FORBIDDEN"
          ELSE First([i \in 1..Len(t.withdrawals.items) |->
                         ValidateWithdrawal(t.withdrawals.items[i])]),
          IF t.metadataHashHex.kind # "absent"
             /\ t.metadataHashHex # HexOf(METADATA_HASH_LENGTH)
          THEN "METADATA_INVALID" ELSE "none",
          IF t.validityIntervalStartStr.given
             /\ ~checkIsPositiveUint64Str(t.validityIntervalStartStr.str)
          THEN "VALIDITY_INTERVAL_START_INVALID" ELSE "none" >>

\* The groups failed, by their position in that order, given the reasons of
\* all groups, and the reason of the first of them ("none" when there is none).
FailedGroups(reasons) == {g \in 1..Len(reasons) : reasons[g] # "none"}

FirstFailure(reasons) ==
    LET failed == FailedGroups(reasons)
    IN IF failed = {} THEN "none"
       ELSE reasons[CHOOSE g \in failed : \A h \in failed : g <= h]

\* A transaction that combines a stake-pool-registration certificate with
\* another certificate and has a withdrawal, all of them individually valid.
CombinationWithWithdrawal(t) ==
    /\ t.certificates.isArray
    /\ Len(t.certificates.items) > 1
    /\ HasPoolRegistration(t.certificates.items)
    /\ \A i \in 1..Len(t.certificates.items) : IndividuallyValid(t.certificates.items[i])
    /\ t.withdrawals.isArray
    /\ t.withdrawals.items # <<>>

\* C28 as stated: validateTransaction reports the reason of the first failing
\* group of checks in the order inputs, outputs, fee, ttl, certificates,
\* withdrawals, metadata hash, validity interval start.
C28_FirstInOrder ==
    TransactionValidated =>
        LET reasons == GroupReasons(parser.arg)
        IN parser.out.error = FirstFailure(reasons)

\* C28, amended: validateTransaction first checks that the certificates are an
\* array (CERTIFICATES_NOT_ARRAY); after that it reports the reason of the
\* first failing group of checks in the order inputs, outputs, fee, ttl,
\* certificates, withdrawals, metadata hash, validity interval start.  A
\* transaction that combines a stake-pool-registration certificate with
\* another certificate and has a withdrawal is never rejected with
\* WITHDRAWALS_FORBIDDEN, and is rejected with
\* CERTIFICATES_COMBINATION_FORBIDDEN when it passes the groups before the
\* certificates.
C28_FirstInOrderAfterArrayCheck ==
    TransactionValidated =>
        LET t == parser.arg
            reasons == GroupReasons(t)
        IN /\ IF ~t.certificates.isArray
              THEN parser.out.error = "CERTIFICATES_NOT_ARRAY"
              ELSE parser.out.error = FirstFailure(reasons)
           /\ CombinationWithWithdrawal(t) =>
                 /\ parser.out.error # "WITHDRAWALS_FORBIDDEN"
                 /\ FailedGroups(reasons) \cap 1..4 = {}
                       => parser.out.error = "CERTIFICATES_COMBINATION_FORBIDDEN"

\* A pool registration combined with another certificate, with a withdrawal,
\* rejected for the combination.
C28_Witness ==
    /\ TransactionValidated
    /\ CombinationWithWithdrawal(parser.arg)
    /\ parser.out.error = "CERTIFICATES_COMBINATION_FORBIDDEN"

\* A transaction that fails in two groups is rejected with the reason of the
\* earlier one.
C28_WitnessTwoFailures ==
    /\ TransactionValidated
    /\ parser.arg.certificates.isArray
    /\ LET reasons == GroupReasons(parser.arg)
       IN /\ Cardinality(FailedGroups(reasons)) >= 2
          /\ reasons[1] = "none"
          /\ parser.out.error = FirstFailure(reasons)

-----------------------------------------------------------------------------
(* The result of setTransaction *)

\* The summaries carried by the chunk responses caller p has received.
CarriedSummaries(p) ==
    { settled[p][i].out.res.summary :
        i \in { k \in 1..Len(settled[p]) : settled[p][k].out.ok /\ settled[p][k].out.res.long } }

\* C26: the value setTransaction returns is the aggregate of the summaries
\* carried by all chunk responses of the stream: a summary carried by an
\* earlier chunk's response is still in the result.
C26_ResultAggregates ==
    \A p \in Procs :
        (mode = "legacy" /\ pc[p] = "done")
        => \A s \in CarriedSummaries(p) :
              \E i \in 1..Len(result[p].data) : result[p].data[i] = s

-----------------------------------------------------------------------------
(* The size of a chunk *)

\* C27: every chunk setTransaction sends carries at least 1 and at most
\* MAX_APDU_SIZE - OFFSET_CDATA bytes, and every chunk but the final one of
\* the transaction carries exactly that maximum.
C27_ChunkPayloadSize ==
    \A p \in Procs :
        mode = "legacy" =>
            LET rawLen == Len(tx[p]) \div 2
                before(k) == (k - 1) * (MAX_APDU_SIZE - OFFSET_CDATA)
            IN \A k \in 1..Len(chunks[p]) :
                  /\ Len(chunks[p][k].data) >= 1
                  /\ Len(chunks[p][k].data) <= MAX_APDU_SIZE - OFFSET_CDATA
                  /\ before(k) + Len(chunks[p][k].data) < rawLen
                        => Len(chunks[p][k].data) = MAX_APDU_SIZE - OFFSET_CDATA

\* A transaction sent in three chunks: two of the maximum size and a final one
\* of a single byte.
C27_Witness ==
    \E p \in Procs :
        /\ mode = "legacy"
        /\ Len(chunks[p]) = 3
        /\ Len(chunks[p][1].data) = MAX_APDU_SIZE - OFFSET_CDATA
        /\ Len(chunks[p][2].data) = MAX_APDU_SIZE - OFFSET_CDATA
        /\ Len(chunks[p][3].data) = 1

-----------------------------------------------------------------------------
(* interact and send *)

\* The requests the interaction of caller p has yielded so far: it has been
\* resumed Len(acc[p]) times, so it has been asked for its steps 0 to
\* Len(acc[p]), and it yields until it returns or throws.
Yielded(p) ==
    IF call[p] = NoCall \/ Validate(call[p]) # "ok" THEN <<>>
    ELSE LET step(j) == GenStep(call[p], j, IF j = 0 THEN "none" ELSE version[p])
             n == Cardinality({j \in 0..Len(acc[p]) : step(j).kind = "yield"})
         IN [i \in 1..n |-> step(i - 1).req]

\* The first attempt of the first request failed with still-in-call.
FirstRetried(p) ==
    /\ Len(settled[p]) >= 1
    /\ IsStillInCall(settled[p][1].thrown)

\* C24: the requests handed to send in one operation are exactly the requests
\* its interaction has yielded, each once and in yield order, but for the
\* first request, which is sent twice when it is retried.
C24_SentAsYielded ==
    \A p \in Procs :
        mode = "ts" =>
            sent[p] = IF FirstRetried(p)
                      THEN <<Yielded(p)[1]>> \o Yielded(p)
                      ELSE Yielded(p)

\* An operation whose first request was retried has returned after three
\* yields and four sends.
C24_Witness ==
    \E p \in Procs :
        /\ mode = "ts"
        /\ pc[p] = "done"
        /\ FirstRetried(p)
        /\ Len(Yielded(p)) = 3
        /\ Len(sent[p]) = 4

C24_WitnessNotRetried ==
    \E p \in Procs :
        /\ mode = "ts"
        /\ pc[p] = "done"
        /\ ~FirstRetried(p)
        /\ Len(Yielded(p)) = 3
        /\ Len(sent[p]) = 3

-----------------------------------------------------------------------------
(* interact terminates *)

InteractionOf(p) == call[p] \in Interactions

\* The responses the sends of caller p returned, in order.
Returned(p) == [i \in 1..Len(settled[p]) |-> settled[p][i].out.res]

\* C25: when every send returns a response, interact applied to an
\* interaction of n requests makes at most n exchanges and never fails; it
\* returns after exactly n exchanges, with the interaction's final value, here
\* what the interaction makes of the n responses; for n = 0 it returns without
\* sending anything; and a call that awaits a response returns eventually.
C25_InteractTerminates ==
    /\ [](\A p \in Procs :
            InteractionOf(p) =>
                /\ pc[p] # "failed"
                /\ Len(settled[p]) <= call[p].steps
                /\ Len(sent[p]) <= call[p].steps
                /\ pc[p] = "done" =>
                      /\ Len(settled[p]) = call[p].steps
                      /\ Len(sent[p]) = call[p].steps
                      /\ result[p] = [set |-> TRUE, data |-> Returned(p)])
    /\ \A p \in Procs :
          (InteractionOf(p) /\ pc[p] = "awaiting") ~> (pc[p] = "done")

\* interact has returned after the two exchanges of an interaction of two
\* requests.
C25_Witness ==
    \E p \in Procs :
        /\ InteractionOf(p)
        /\ call[p].steps = 2
        /\ pc[p] = "done"
        /\ Len(settled[p]) = 2

\* interact has returned the value of an interaction that yields nothing.
C25_WitnessNoRequest ==
    \E p \in Procs :
        /\ InteractionOf(p)
        /\ call[p].steps = 0
        /\ pc[p] = "done"
        /\ sent[p] = <<>>
        /\ result[p].set

-----------------------------------------------------------------------------
(* A repeated call *)

\* Caller p is in a call that repeats the call before.
Repeating(p) == last.set /\ call[p] = last.call /\ call[p] # NoCall

\* C23: a getExtendedPublicKey call that follows one with the same path on the
\* same instance, the device answering as before, sends the requests the
\* call before sent, in the same order, and ends as it ended: with the same
\* result or the same error.
C23_RepeatedCallSame ==
    \A p \in Procs :
        Repeating(p) =>
            /\ Len(sent[p]) <= Len(last.sent)
            /\ \A i \in 1..Len(sent[p]) : sent[p][i] = last.sent[i]
            /\ pc[p] \in {"done", "failed"} =>
                  /\ sent[p] = last.sent
                  /\ result[p] = last.result
                  /\ err[p] = last.err

\* The second call has returned the key the first returned, after the same
\* two requests.
C23_Witness ==
    \E p \in Procs :
        /\ Repeating(p)
        /\ pc[p] = "done"
        /\ Len(sent[p]) = 2
        /\ result[p].set
        /\ result[p] = last.result

\* The second call has failed as the first did, its first request retried.
C23_WitnessFailed ==
    \E p \in Procs :
        /\ Repeating(p)
        /\ pc[p] = "failed"
        /\ FirstRetried(p)
        /\ err[p] = last.err

====
